---- MODULE Spec2Model ----
(***************************************************************************)
(* A model of ha-l10n: the dotted-key flattener and unflattener, the       *)
(* coverage calculator, the integration scanner and the translation        *)
(* editor, as the Python sources under src/src/ha_l10n compute them.       *)
(*                                                                         *)
(* Python values are modelled as follows.                                  *)
(*   str   a TLA+ string, read as the sequence of its characters           *)
(*   dict  a sequence of <<key, value>> pairs with pairwise distinct keys, *)
(*         in insertion order (the order dict.items() iterates in)         *)
(*   JSON  a node [kind, val, items]: kind "str" carries val, kind "dict"  *)
(*         carries items (a dict of nodes), kind "other" is any value that *)
(*         is neither a str nor a dict (number, boolean, null, list)       *)
(***************************************************************************)
EXTENDS Integers, Sequences, FiniteSets, TLC

(***************************************************************************)
(* Bounds of the model.                                                    *)
(***************************************************************************)
\* the largest number of key/value entries, summed over all levels, of a
\* JSON tree drawn as an input, and the largest number of entries of a
\* string table drawn as an input
MaxEntries == 3

\* the number of handlers run in a session of the application
MaxSteps == 7

(***************************************************************************)
(* Python str                                                              *)
(***************************************************************************)
Dot == "."
EmptyStr == ""

\* s[i], the i-th character of s
CharAt(s, i) == SubSeq(s, i, i)

\* 'x' in s
Contains(s, ch) == \E i \in 1..Len(s) : CharAt(s, i) = ch

\* the index of the first occurrence of ch in s (which contains ch)
IndexOf(s, ch) ==
    CHOOSE i \in 1..Len(s) : CharAt(s, i) = ch /\ \A j \in 1..(i - 1) : CharAt(s, j) # ch

\* str.split('.'): the segments between the dots; ''.split('.') is ['']
RECURSIVE Split(_)
Split(s) ==
    IF ~Contains(s, Dot) THEN <<s>>
    ELSE LET i == IndexOf(s, Dot)
         IN  <<SubSeq(s, 1, i - 1)>> \o Split(SubSeq(s, i + 1, Len(s)))

\* '.'.join(parts), for a non-empty list of parts
RECURSIVE Join(_)
Join(parts) ==
    IF Len(parts) = 1 THEN parts[1]
    ELSE parts[1] \o Dot \o Join(Tail(parts))

\* str.startswith
StartsWith(s, p) == Len(p) <= Len(s) /\ SubSeq(s, 1, Len(p)) = p

(***************************************************************************)
(* Python dict, in insertion order                                         *)
(***************************************************************************)
EmptyDict == <<>>

DictKeys(d) == {d[i][1] : i \in 1..Len(d)}

\* k in d
DictHas(d, k) == k \in DictKeys(d)

DictIndex(d, k) == CHOOSE i \in 1..Len(d) : d[i][1] = k

\* d[k], for a key of d
DictAt(d, k) == d[DictIndex(d, k)][2]

\* d.get(k, default)
DictGet(d, k, default) == IF DictHas(d, k) THEN DictAt(d, k) ELSE default

\* d[k] = v: an existing key keeps its position, a new key is appended
DictSet(d, k, v) ==
    IF DictHas(d, k)
    THEN [d EXCEPT ![DictIndex(d, k)] = <<k, v>>]
    ELSE Append(d, <<k, v>>)

\* d1 == d2 for dicts of strings: the same keys with the same values,
\* whatever the insertion order
TableEq(d1, d2) == {d1[i] : i \in 1..Len(d1)} = {d2[i] : i \in 1..Len(d2)}

(***************************************************************************)
(* JSON values                                                             *)
(***************************************************************************)
StrNode(s) == [kind |-> "str", val |-> s, items |-> EmptyDict]
DictNode(d) == [kind |-> "dict", val |-> EmptyStr, items |-> d]
OtherNode == [kind |-> "other", val |-> EmptyStr, items |-> EmptyDict]

IsDict(n) == n.kind = "dict"
IsStr(n) == n.kind = "str"

\* the value as a mathematical object, insertion order forgotten: Python's
\* == on dicts compares keys and values, not order
RECURSIVE Canon(_)
Canon(n) ==
    IF IsDict(n)
    THEN [kind |-> "dict", val |-> EmptyStr,
          items |-> [k \in DictKeys(n.items) |-> Canon(DictAt(n.items, k))]]
    ELSE n

NodeEq(n1, n2) == Canon(n1) = Canon(n2)

(***************************************************************************)
(* strings._flatten_json and scanner._flatten                              *)
(***************************************************************************)
\* a variant that joins with the separator at the top level too
DottedKeyAlwaysJoined(prefix, k) == prefix \o Dot \o k

\* a variant that forgets the prefix
DottedKeyWithoutPrefix(prefix, k) == k

\* key = f"{prefix}.{k}" if prefix else k
DottedKey(prefix, k) == IF prefix # EmptyStr THEN prefix \o Dot \o k ELSE k

\* strings.py: _flatten_json(data, prefix, result), returning result as the
\* call leaves it
RECURSIVE _flatten_json(_, _, _)
RECURSIVE FlattenJsonItems(_, _, _)
FlattenJsonItems(items, prefix, result) ==
    IF items = <<>> THEN result
    ELSE FlattenJsonItems(Tail(items), prefix,
             _flatten_json(items[1][2], DottedKey(prefix, items[1][1]), result))

\* a variant that records a value that is neither a dict nor a string as
\* its text
FlattenJsonRecordingOthers(data, prefix, result) ==
    IF IsDict(data) THEN FlattenJsonItems(data.items, prefix, result)
    ELSE IF IsStr(data) THEN DictSet(result, prefix, data.val)
    ELSE DictSet(result, prefix, "None")

_flatten_json(data, prefix, result) ==
    IF IsDict(data) THEN FlattenJsonItems(data.items, prefix, result)
    ELSE IF IsStr(data) THEN DictSet(result, prefix, data.val)
    ELSE result

\* scanner.py: _flatten(data, prefix, result)
RECURSIVE _flatten(_, _, _)
RECURSIVE FlattenItems(_, _, _)
FlattenItems(items, prefix, result) ==
    IF items = <<>> THEN result
    ELSE FlattenItems(Tail(items), prefix,
             _flatten(items[1][2], DottedKey(prefix, items[1][1]), result))

\* a variant without the isinstance(data, str) test: every value that is
\* not a dict is recorded
FlattenRecordingEveryLeaf(data, prefix, result) ==
    IF IsDict(data) THEN FlattenItems(data.items, prefix, result)
    ELSE DictSet(result, prefix, data.val)

_flatten(data, prefix, result) ==
    IF IsDict(data) THEN FlattenItems(data.items, prefix, result)
    ELSE IF IsStr(data) THEN DictSet(result, prefix, data.val)
    ELSE result

(***************************************************************************)
(* The dotted-key rebuild of export.export_ha_json and of                  *)
(* editor.TranslationEditor._on_save (the same loop in both)               *)
(***************************************************************************)
\* the outcome of a computation that may raise
Ok(v) == [ok |-> TRUE, value |-> v, error |-> "none"]
Raised(e) == [ok |-> FALSE, value |-> OtherNode, error |-> e]

\* for p in parts[:-1]: d = d.setdefault(p, {})
\* d[parts[-1]] = val
\* applied to the node d: the node after the writes, or the exception.  A
\* str in the place of d has neither setdefault (AttributeError) nor item
\* assignment (TypeError).
RECURSIVE SetPath(_, _, _)
SetPath(d, parts, val) ==
    IF Len(parts) = 1
    THEN IF IsDict(d) THEN Ok(DictNode(DictSet(d.items, parts[1], StrNode(val))))
         ELSE Raised("TypeError")
    ELSE IF ~IsDict(d) THEN Raised("AttributeError")
    ELSE LET p == parts[1]
             child == DictGet(d.items, p, DictNode(EmptyDict))
             r == SetPath(child, Tail(parts), val)
         IN  IF r.ok THEN Ok(DictNode(DictSet(d.items, p, r.value))) ELSE r

\* a variant that writes the entries with an empty value too
UnflattenEntryKeepingEmpty(nested, key, val) == SetPath(nested, Split(key), val)

\* the loop body for one (key, val) of the table
UnflattenEntry(nested, key, val) ==
    IF val = EmptyStr THEN Ok(nested)
    ELSE SetPath(nested, Split(key), val)

\* the loop over translations.items(), from the node nested
RECURSIVE UnflattenFrom(_, _)
\* a variant that starts from an empty tree again at every entry, so that
\* only the last entry is kept
UnflattenFromFreshTree(nested, table) ==
    IF table = <<>> THEN Ok(nested)
    ELSE UnflattenEntry(DictNode(EmptyDict), table[Len(table)][1], table[Len(table)][2])

UnflattenFrom(nested, table) ==
    IF table = <<>> THEN Ok(nested)
    ELSE LET r == UnflattenEntry(nested, table[1][1], table[1][2])
         IN  IF r.ok THEN UnflattenFrom(r.value, Tail(table)) ELSE r

\* export.py: nested = {}; for key, val in translations.items(): ...
export_ha_json_nested(translations) == UnflattenFrom(DictNode(EmptyDict), translations)

\* a rebuild that leaves out the entries it cannot place and goes on
RECURSIVE UnflattenSkipping(_, _)
UnflattenSkipping(nested, table) ==
    IF table = <<>> THEN Ok(nested)
    ELSE LET r == UnflattenEntry(nested, table[1][1], table[1][2])
         IN  UnflattenSkipping(IF r.ok THEN r.value ELSE nested, Tail(table))

_on_save_nested_skipping_misfits(translations) ==
    UnflattenSkipping(DictNode(EmptyDict), translations)

\* editor.py: nested = {}; for key, val in self._translations.items(): ...
_on_save_nested(translations) == UnflattenFrom(DictNode(EmptyDict), translations)

(***************************************************************************)
(* sorted(): ascending order of str, character by character               *)
(***************************************************************************)
\* the characters that occur in the model, in ascending code point order
Alphabet == " -.0123456789ABCDEFGHIJKLMNOPQRSTUVWXYZ_abcdefghijklmnopqrstuvwxyz"

\* the rank of each character in code point order
Codes == [ch \in {CharAt(Alphabet, i) : i \in 1..Len(Alphabet)} |-> IndexOf(Alphabet, ch)]

Code(ch) == Codes[ch]

\* s < t for str
RECURSIVE StrLess(_, _)
StrLess(s, t) ==
    IF t = EmptyStr THEN FALSE
    ELSE IF s = EmptyStr THEN TRUE
    ELSE IF CharAt(s, 1) # CharAt(t, 1) THEN Code(CharAt(s, 1)) < Code(CharAt(t, 1))
    ELSE StrLess(Tail(s), Tail(t))

\* sorted(S) for a set of distinct str
RECURSIVE Sorted(_)
Sorted(S) ==
    IF S = {} THEN <<>>
    ELSE LET m == CHOOSE x \in S : \A y \in S : x = y \/ StrLess(x, y)
         IN  <<m>> \o Sorted(S \ {m})

\* str.endswith
EndsWith(s, suffix) ==
    Len(suffix) <= Len(s) /\ SubSeq(s, Len(s) - Len(suffix) + 1, Len(s)) = suffix

\* str.strip(), of the blanks
RECURSIVE Strip(_)
Strip(s) ==
    IF s = EmptyStr THEN s
    ELSE IF Head(s) = " " THEN Strip(Tail(s))
    ELSE IF CharAt(s, Len(s)) = " " THEN Strip(SubSeq(s, 1, Len(s) - 1))
    ELSE s

(***************************************************************************)
(* The file system: a function from paths (sequences of names) to entries. *)
(* An entry is a directory or a file.  The kind of a file is what reading   *)
(* it as UTF-8 JSON does: "json" (json.loads returns the tree), "malformed" *)
(* (json.loads raises JSONDecodeError), "undecodable" (read_text raises     *)
(* UnicodeDecodeError) or "locked" (opening the file raises                 *)
(* PermissionError).  The doc of a file an exporter wrote is the document   *)
(* written.                                                                 *)
(***************************************************************************)
NoDoc == [format |-> "none", rows |-> <<>>, total_strings |-> 0, translated |-> 0]
DirEntry == [type |-> "dir", kind |-> "none", tree |-> OtherNode, doc |-> NoDoc]
JsonFile(t) == [type |-> "file", kind |-> "json", tree |-> t, doc |-> NoDoc]
BadFile(k) == [type |-> "file", kind |-> k, tree |-> OtherNode, doc |-> NoDoc]

\* Path.exists()
Exists(f, p) == p \in DOMAIN f

\* Path.is_dir()
IsDirAt(f, p) == Exists(f, p) /\ f[p].type = "dir"

\* the entries of the directory p
Children(f, p) == {q \in DOMAIN f : Len(q) = Len(p) + 1 /\ SubSeq(q, 1, Len(p)) = p}

\* Path.name
NameOf(p) == p[Len(p)]

\* the exceptions that are OSError
IsOSError(e) ==
    e \in {"FileNotFoundError", "NotADirectoryError", "IsADirectoryError",
           "PermissionError", "FileExistsError", "OSError"}

\* json.loads(p.read_text(encoding='utf-8'))
ReadJson(f, p) ==
    IF ~Exists(f, p) THEN Raised("FileNotFoundError")
    ELSE IF f[p].type = "dir" THEN Raised("IsADirectoryError")
    ELSE IF f[p].kind = "locked" THEN Raised("PermissionError")
    ELSE IF f[p].kind = "undecodable" THEN Raised("UnicodeDecodeError")
    ELSE IF f[p].kind = "malformed" THEN Raised("JSONDecodeError")
    ELSE Ok(f[p].tree)

\* the directory a path lies in
Parent(p) == SubSeq(p, 1, Len(p) - 1)

\* the file system after p is bound to the entry e
Bind(f, p, e) == [q \in DOMAIN f \cup {p} |-> IF q = p THEN e ELSE f[q]]

\* Path.mkdir(parents=True, exist_ok=True): the file system after it, or
\* the exception
RECURSIVE Mkdir(_, _)
Mkdir(f, p) ==
    IF IsDirAt(f, p) THEN Ok(f)
    ELSE IF Exists(f, p) THEN Raised("FileExistsError")
    ELSE IF p = <<>> THEN Ok(f)
    ELSE LET up == Mkdir(f, Parent(p))
         IN  IF ~up.ok THEN Raised("NotADirectoryError")
             ELSE Ok(Bind(up.value, p, DirEntry))

\* a write that fails for no file
WriteFileNeverFailing(f, p, e) == Ok(Bind(f, p, e))

\* open(p, 'w') and the writes that follow: the file system after the file
\* p holds the entry e, or the exception
WriteFile(f, p, e) ==
    IF IsDirAt(f, p) THEN Raised("IsADirectoryError")
    ELSE IF Exists(f, p) /\ f[p].kind = "locked" THEN Raised("PermissionError")
    ELSE IF Exists(f, Parent(p)) /\ ~IsDirAt(f, Parent(p)) THEN Raised("NotADirectoryError")
    ELSE IF ~Exists(f, Parent(p)) /\ Parent(p) # <<>> THEN Raised("FileNotFoundError")
    ELSE Ok(Bind(f, p, e))

(***************************************************************************)
(* strings.extract_strings_from_component, load_translations_for_component *)
(***************************************************************************)
\* strings.py: except (json.JSONDecodeError, OSError): pass
StringsCatches(e) == e = "JSONDecodeError" \/ IsOSError(e)

\* the table a try block of strings.py leaves for the file p: the flattened
\* file, the empty table after a caught exception, or the exception
FlattenedFile(f, p) ==
    IF ~Exists(f, p) THEN Ok(EmptyDict)
    ELSE LET r == ReadJson(f, p)
         IN  IF r.ok THEN Ok(_flatten_json(r.value, EmptyStr, EmptyDict))
             ELSE IF StringsCatches(r.error) THEN Ok(EmptyDict)
             ELSE r

extract_strings_from_component(f, component_path) ==
    FlattenedFile(f, Append(component_path, "strings.json"))

load_translations_for_component(f, component_path, lang) ==
    FlattenedFile(f, component_path \o <<"translations", lang \o ".json">>)

(***************************************************************************)
(* Percentages: x / y * 100 as the fraction in lowest terms                *)
(***************************************************************************)
RECURSIVE Gcd(_, _)
Gcd(a, b) == IF b = 0 THEN a ELSE Gcd(b, a % b)

\* x / y * 100, for y > 0
Percent(x, y) ==
    LET g == Gcd(x * 100, y)
    IN  [num |-> (x * 100) \div g, den |-> y \div g]

\* the number 0
Zero == [num |-> 0, den |-> 1]

(***************************************************************************)
(* scanner.scan_integrations                                               *)
(***************************************************************************)
\* scanner.py: except (json.JSONDecodeError, OSError)
ScanCatches(e) == e = "JSONDecodeError" \/ IsOSError(e)

\* str.rfind('.'), counted from 1, 0 when there is none
RECURSIVE LastDot(_)
LastDot(s) ==
    IF s = EmptyStr THEN 0
    ELSE IF CharAt(s, Len(s)) = Dot THEN Len(s)
    ELSE LastDot(SubSeq(s, 1, Len(s) - 1))

\* PurePath.stem: the name without its last suffix
Stem(name) ==
    LET i == LastDot(name)
    IN  IF 1 < i /\ i < Len(name) THEN SubSeq(name, 1, i - 1) ELSE name

\* sorted(p.stem for p in trans_dir.glob("*.json"))
Languages(f, trans_dir) ==
    IF ~IsDirAt(f, trans_dir) THEN <<>>
    ELSE Sorted({Stem(NameOf(q)) :
                   q \in {c \in Children(f, trans_dir) : EndsWith(NameOf(c), ".json")}})

\* the try block on strings.json: info['string_count'], or the exception
StringCount(f, item) ==
    LET r == ReadJson(f, Append(item, "strings.json"))
    IN  IF r.ok THEN Ok(Len(_flatten(r.value, EmptyStr, EmptyDict)))
        ELSE IF ScanCatches(r.error) THEN Ok(0)
        ELSE r

\* the try block on translations/<lang>.json: info['coverage'][lang], or
\* the exception
LanguageCoverage(f, trans_dir, lang, string_count) ==
    LET r == ReadJson(f, Append(trans_dir, lang \o ".json"))
    IN  IF r.ok
        THEN Ok(IF string_count > 0
                THEN Percent(Len(_flatten(r.value, EmptyStr, EmptyDict)), string_count)
                ELSE Zero)
        ELSE IF ScanCatches(r.error) THEN Ok(Zero)
        ELSE r

\* for lang in langs: ..., from the coverage dict built so far
RECURSIVE CoverageOf(_, _, _, _, _)
CoverageOf(f, trans_dir, langs, string_count, coverage) ==
    IF langs = <<>> THEN Ok(coverage)
    ELSE LET r == LanguageCoverage(f, trans_dir, langs[1], string_count)
         IN  IF r.ok
             THEN CoverageOf(f, trans_dir, Tail(langs), string_count,
                             DictSet(coverage, langs[1], r.value))
             ELSE r

\* the loop body for one directory item that is not skipped: its info, or
\* the exception
ScanItem(f, item) ==
    LET has_strings == Exists(f, Append(item, "strings.json"))
        has_translations == Exists(f, Append(item, "translations"))
        trans_dir == Append(item, "translations")
        count == IF has_strings THEN StringCount(f, item) ELSE Ok(0)
        langs == IF has_translations THEN Languages(f, trans_dir) ELSE <<>>
        cov == IF count.ok
               THEN CoverageOf(f, trans_dir, langs, count.value, EmptyDict)
               ELSE count
    IN  IF ~count.ok THEN count
        ELSE IF ~cov.ok THEN cov
        ELSE Ok([name |-> NameOf(item), path |-> item,
                 has_strings |-> has_strings,
                 has_translations |-> has_translations,
                 languages |-> langs,
                 string_count |-> count.value,
                 coverage |-> cov.value])

\* if not item.is_dir(): continue
\* if item.name.startswith('.') or item.name == '__pycache__': continue
Skipped(f, item) ==
    \/ ~IsDirAt(f, item)
    \/ StartsWith(NameOf(item), ".")
    \/ NameOf(item) = "__pycache__"

\* for item in sorted(path.iterdir()): ..., from the results built so far
RECURSIVE ScanItems(_, _, _, _)
ScanItems(f, container, names, results) ==
    IF names = <<>> THEN Ok(results)
    ELSE LET item == Append(container, names[1])
         IN  IF Skipped(f, item) THEN ScanItems(f, container, Tail(names), results)
             ELSE LET r == ScanItem(f, item)
                  IN  IF r.ok
                      THEN ScanItems(f, container, Tail(names), Append(results, r.value))
                      ELSE r

\* path.iterdir() of what is no directory
IterDirError(f, p) == IF Exists(f, p) THEN "NotADirectoryError" ELSE "FileNotFoundError"

\* scan_integrations(config_path): the list of infos, or the exception
scan_integrations(f, config_path) ==
    LET cc == Append(config_path, "custom_components")
        path == IF Exists(f, cc) THEN cc ELSE config_path
    IN  IF ~Exists(f, cc) /\ ~IsDirAt(f, config_path)
        THEN Raised(IterDirError(f, config_path))
        ELSE IF ~Exists(f, cc) /\ Children(f, config_path) = {} THEN Ok(<<>>)
        ELSE IF ~IsDirAt(f, path) THEN Raised(IterDirError(f, path))
        ELSE ScanItems(f, path, Sorted({NameOf(q) : q \in Children(f, path)}), <<>>)

(***************************************************************************)
(* strings.StringsView: _rebuild, get_strings_data, get_coverage_stats,    *)
(* as functions of the fields they read                                    *)
(***************************************************************************)
STATUS_TRANSLATED == "translated"
STATUS_UNTRANSLATED == "untranslated"
STATUS_FUZZY == "fuzzy"
STATUS_MISSING == "missing"

\* _rebuild: self._all_keys = sorted(self._source_strings.keys())
AllKeysOf(source_strings) == Sorted(DictKeys(source_strings))

\* _rebuild: the row appended to the store for key
StoreRow(source_strings, target_strings, key) ==
    LET tgt == DictGet(target_strings, key, EmptyStr)
    IN  <<key, DictAt(source_strings, key), tgt,
          IF tgt # EmptyStr THEN STATUS_TRANSLATED ELSE STATUS_MISSING>>

\* _rebuild: the rows of the store
StoreRows(source_strings, target_strings) ==
    LET keys == AllKeysOf(source_strings)
    IN  [i \in 1..Len(keys) |-> StoreRow(source_strings, target_strings, keys[i])]

\* a variant that counts the keys the target table has, whatever their value
TranslatedCountingPresentKeys(all_keys, target_strings) ==
    Cardinality({i \in 1..Len(all_keys) : DictHas(target_strings, all_keys[i])})

\* sum(1 for k in self._all_keys if self._target_strings.get(k))
TranslatedCount(all_keys, target_strings) ==
    Cardinality({i \in 1..Len(all_keys) :
                   DictGet(target_strings, all_keys[i], EmptyStr) # EmptyStr})

\* get_coverage_stats: (total, translated, pct)
CoverageStats(all_keys, target_strings) ==
    LET total == Len(all_keys)
        translated == TranslatedCount(all_keys, target_strings)
    IN  <<total, translated, IF total > 0 THEN Percent(translated, total) ELSE Zero>>

\* get_strings_data: the list of items
get_strings_data(all_keys, source_strings, target_strings) ==
    [i \in 1..Len(all_keys) |->
        LET tgt == DictGet(target_strings, all_keys[i], EmptyStr)
        IN  [key |-> all_keys[i],
             source |-> DictGet(source_strings, all_keys[i], EmptyStr),
             target |-> tgt,
             status |-> IF tgt # EmptyStr THEN STATUS_TRANSLATED ELSE STATUS_MISSING]]

(***************************************************************************)
(* export: the document each exporter writes                               *)
(***************************************************************************)
\* datetime.now(), formatted
Now == "now"

\* f"{APP_LABEL} v{__version__} - {AUTHOR}"
Attribution == "APP_LABEL v__version__ - AUTHOR"

\* str.replace(ch, by), for a character ch
RECURSIVE Replace(_, _, _)
Replace(s, ch, by) ==
    IF s = EmptyStr THEN s
    ELSE (IF CharAt(s, 1) = ch THEN by ELSE CharAt(s, 1)) \o Replace(Tail(s), ch, by)

\* item.get(name, '')
Field(item, name) == IF name \in DOMAIN item THEN item[name] ELSE EmptyStr

\* csv.writer: a field is quoted, its quotes doubled, when it holds the
\* delimiter, the quote character or a line break
CsvField(s) ==
    IF Contains(s, ",") \/ Contains(s, "\"") \/ Contains(s, "\n") \/ Contains(s, "\r")
    THEN "\"" \o Replace(s, "\"", "\"\"") \o "\""
    ELSE s

\* csv.writer.writerow: the line written for a row, without its terminator
RECURSIVE CsvFields(_)
CsvFields(row) ==
    IF Len(row) = 1 THEN CsvField(row[1])
    ELSE CsvField(row[1]) \o "," \o CsvFields(Tail(row))

CsvLine(row) ==
    IF row = <<>> THEN EmptyStr
    ELSE IF row = <<EmptyStr>> THEN "\"\""
    ELSE CsvFields(row)

\* a CSV export without the blank row before the attribution
export_csv_without_blank_row(data) ==
    [format |-> "csv",
     rows |-> <<<<"Key", "Source", "Target", "Status">>>>
              \o [i \in 1..Len(data) |->
                    <<Field(data[i], "key"), Field(data[i], "source"),
                      Field(data[i], "target"), Field(data[i], "status")>>]
              \o << <<Attribution>> >>,
     total_strings |-> 0,
     translated |-> 0]

\* export_csv: the rows written
export_csv(data) ==
    [format |-> "csv",
     rows |-> <<<<"Key", "Source", "Target", "Status">>>>
              \o [i \in 1..Len(data) |->
                    <<Field(data[i], "key"), Field(data[i], "source"),
                      Field(data[i], "target"), Field(data[i], "status")>>]
              \o << <<>>, <<Attribution>> >>,
     total_strings |-> 0,
     translated |-> 0]

\* a report whose count of translated items is the count of items with a
\* non-empty target
export_json_report_counting_targets(data) ==
    [format |-> "report",
     generated |-> Now,
     rows |-> data,
     total_strings |-> Len(data),
     translated |-> Cardinality({i \in 1..Len(data) : Field(data[i], "target") # EmptyStr})]

\* export_json_report: the report written; its strings are the items of
\* data, and an item counts as translated when d.get('status') is
\* 'translated'
export_json_report(data) ==
    [format |-> "report",
     generated |-> Now,
     rows |-> data,
     total_strings |-> Len(data),
     translated |-> Cardinality({i \in 1..Len(data) :
                                   /\ "status" \in DOMAIN data[i]
                                   /\ data[i].status = "translated"})]

\* what json.loads gives for a report
ReportTree ==
    DictNode(<< <<"generated", StrNode(Now)>>, <<"total_strings", OtherNode>>,
                <<"translated", OtherNode>>, <<"strings", OtherNode>> >>)

\* an escaping that handles the double quotes first
EscapedQuotesFirst(value) == Replace(Replace(value, "\"", "\\\""), "\\", "\\\\")

\* value.replace('\\', '\\\\').replace('"', '\\"')
Escaped(value) == Replace(Replace(value, "\\", "\\\\"), "\"", "\\\"")

\* a template whose entries follow the insertion order of the source table
export_pot_unsorted(source_strings, package) ==
    [format |-> "pot",
     rows |-> << <<"Project-Id-Version: " \o package>> >>
              \o [i \in 1..Len(source_strings) |->
                    <<source_strings[i][1], Escaped(source_strings[i][2]), EmptyStr>>],
     total_strings |-> 0,
     translated |-> 0]

\* export_pot: the header fields and one row (key, msgid, msgstr) per
\* entry written
export_pot(source_strings, package) ==
    LET keys == Sorted(DictKeys(source_strings))
    IN  [format |-> "pot",
         rows |-> << <<"Project-Id-Version: " \o package, "POT-Creation-Date: " \o Now,
                       "PO-Revision-Date: YEAR-MO-DA HO:MI+ZONE",
                       "Last-Translator: FULL NAME <EMAIL@ADDRESS>",
                       "Language-Team: LANGUAGE <LL@li.org>", "Language: ",
                       "MIME-Version: 1.0", "Content-Type: text/plain; charset=UTF-8",
                       "Content-Transfer-Encoding: 8bit">> >>
                  \o [i \in 1..Len(keys) |->
                        <<keys[i], Escaped(DictAt(source_strings, keys[i])), EmptyStr>>],
         total_strings |-> 0,
         translated |-> 0]

\* a PO file with one entry per key of either table
export_po_of_all_keys(source_strings, translations, lang, package) ==
    LET keys == Sorted(DictKeys(source_strings) \cup DictKeys(translations))
    IN  [format |-> "po",
         rows |-> << <<"Project-Id-Version: " \o package>> >>
                  \o [i \in 1..Len(keys) |->
                        <<keys[i], Escaped(DictGet(source_strings, keys[i], EmptyStr)),
                          Escaped(DictGet(translations, keys[i], EmptyStr))>>],
         total_strings |-> 0,
         translated |-> 0]

\* export_po: the header fields and one row (key, msgid, msgstr) per entry
\* written
export_po(source_strings, translations, lang, package) ==
    LET keys == Sorted(DictKeys(source_strings))
    IN  [format |-> "po",
         rows |-> << <<"Project-Id-Version: " \o package, "PO-Revision-Date: " \o Now,
                       "Language: " \o lang, "MIME-Version: 1.0",
                       "Content-Type: text/plain; charset=UTF-8",
                       "Content-Transfer-Encoding: 8bit">> >>
                  \o [i \in 1..Len(keys) |->
                        <<keys[i], Escaped(DictAt(source_strings, keys[i])),
                          Escaped(DictGet(translations, keys[i], EmptyStr))>>],
         total_strings |-> 0,
         translated |-> 0]

\* the file an exporter leaves: its text is no JSON, but for a report
TextFile(doc) ==
    [type |-> "file", kind |-> IF doc.format = "report" THEN "json" ELSE "malformed",
     tree |-> IF doc.format = "report" THEN ReportTree ELSE OtherNode, doc |-> doc]

(***************************************************************************)
(* The inputs the functions are applied to                                 *)
(***************************************************************************)
Hello == "hello"
World == "world"

\* the leaf strings of the JSON trees and the values of the string tables
Vals == {EmptyStr, Hello, World}

\* the mapping keys of the JSON trees: plain keys, the empty key and a key
\* that itself contains the separator
TreeKeys == {"", "a", "b", "a.b"}

\* the dotted keys of the string tables
TableKeys == {"", "a", "b", "a.b", "a.c", ".a"}

RECURSIVE ItemsOfCost(_)
\* the JSON values with exactly n entries below them
NodesOfCost(n) ==
    IF n = 0 THEN {StrNode(v) : v \in Vals} \cup {OtherNode, DictNode(EmptyDict)}
    ELSE {DictNode(d) : d \in ItemsOfCost(n)}

\* the dicts (in every insertion order) holding exactly n entries, the
\* entries of nested dicts included
ItemsOfCost(n) ==
    IF n = 0 THEN {EmptyDict}
    ELSE UNION {
           UNION { { Append(d, <<k, c>>) : k \in TreeKeys \ DictKeys(d) }
                   : d \in ItemsOfCost(n - 1 - i), c \in NodesOfCost(i) }
           : i \in 0..(n - 1) }

\* the worked example of the specification: {"a": {"b": "hello", "c": "world"}}
ExampleTree ==
    DictNode(<< <<"a", DictNode(<< <<"b", StrNode(Hello)>>,
                                   <<"c", StrNode(World)>> >>)>> >>)

\* inTree is a JSON object with at most MaxEntries entries: the empty object,
\* or an object d extended by a last entry k: c
IsBoundedTree(t) ==
    \/ t = DictNode(EmptyDict)
    \/ \E i \in 0..(MaxEntries - 1) : \E j \in 0..(MaxEntries - 1 - i) :
         \E d \in ItemsOfCost(j), c \in NodesOfCost(i) :
           \E k \in TreeKeys \ DictKeys(d) : t = DictNode(Append(d, <<k, c>>))

RECURSIVE TablesOfLen(_)
TablesOfLen(n) ==
    IF n = 0 THEN {EmptyDict}
    ELSE UNION { { Append(t, <<k, v>>) : k \in TableKeys \ DictKeys(t), v \in Vals }
                 : t \in TablesOfLen(n - 1) }

\* t is a string table with at most MaxEntries entries, in any order
IsBoundedTable(t) ==
    \/ t = EmptyDict
    \/ \E n \in 0..(MaxEntries - 1) : \E d \in TablesOfLen(n) :
         \E k \in TableKeys \ DictKeys(d), v \in Vals : t = Append(d, <<k, v>>)

(***************************************************************************)
(* State                                                                   *)
(***************************************************************************)
(* The file systems the application runs on: a configuration directory     *)
(* with the integrations alpha and beta, directly in it or in its          *)
(* custom_components directory, next to entries a scan has to pass over,   *)
(* and a home directory to export to; custom_components can also be an     *)
(* empty directory or a regular file next to the integrations              *)
(***************************************************************************)
Config == <<"config">>
Home == <<"home">>
LockedFile == Append(Home, "locked.json")

\* translations of ExampleTree: complete, with an empty value, with a key
\* the source does not have, with a string where the source has a mapping
Complete ==
    DictNode(<< <<"a", DictNode(<< <<"b", StrNode("hej")>>, <<"c", StrNode("varld")>> >>)>> >>)
WithEmptyValue ==
    DictNode(<< <<"a", DictNode(<< <<"b", StrNode("hej")>>, <<"c", StrNode(EmptyStr)>> >>)>> >>)
WithExtraKey ==
    DictNode(<< <<"a", DictNode(<< <<"b", StrNode("hej")>> >>)>>, <<"zz", StrNode("extra")>> >>)
WithStringAtA == DictNode(<< <<"a", StrNode("hej")>> >>)

\* sources: one key, and the two keys of ExampleTree among four
OneKey == DictNode(<< <<"x", StrNode("Hello")>> >>)
OneKeyTranslated == DictNode(<< <<"x", StrNode("Hej")>> >>)
FourKeys ==
    DictNode(<< <<"a", DictNode(<< <<"b", StrNode(Hello)>>, <<"c", StrNode(World)>> >>)>>,
                <<"x", StrNode("Hello")>>, <<"y", StrNode("Yes")>> >>)

\* a source whose flattened keys are not in key order, with an upper-case
\* key, and a translation of it with a key the source does not have
Mixed ==
    DictNode(<< <<"b", StrNode("bee")>>, <<"a", DictNode(<< <<"c", StrNode("sea")>> >>)>>,
                <<"B", StrNode("Bee")>> >>)
MixedTranslated ==
    DictNode(<< <<"zz", StrNode("extra")>>, <<"b", StrNode("bi")>> >>)

\* what a file can be, by name
FileOf(c) ==
    CASE c = "dir" -> DirEntry
      [] c = "example" -> JsonFile(ExampleTree)
      [] c = "four" -> JsonFile(FourKeys)
      [] c = "one" -> JsonFile(OneKey)
      [] c = "none" -> JsonFile(DictNode(EmptyDict))
      [] c = "complete" -> JsonFile(Complete)
      [] c = "emptyvalue" -> JsonFile(WithEmptyValue)
      [] c = "extrakey" -> JsonFile(WithExtraKey)
      [] c = "stringata" -> JsonFile(WithStringAtA)
      [] c = "onetranslated" -> JsonFile(OneKeyTranslated)
      [] c = "mixed" -> JsonFile(Mixed)
      [] c = "mixedsv" -> JsonFile(MixedTranslated)
      [] OTHER -> BadFile(c)

BadKinds == {"malformed", "undecodable", "locked"}
StringsChoices == {"absent", "dir", "example", "four", "one", "none"} \cup BadKinds
SvChoices == {"absent", "complete", "emptyvalue", "extrakey"} \cup BadKinds
DeChoices == {"absent", "complete", "malformed"}

\* the file system holding the entries given as (path, entry) pairs
FsOf(entries) ==
    [p \in {e[1] : e \in entries} |-> (CHOOSE e \in entries : e[1] = p)[2]]

OneFile(p, c) == IF c = "absent" THEN {} ELSE {<<p, FileOf(c)>>}

\* the entries of an integration directory
IntegrationEntries(dir, sc, tc, svc, dec) ==
    LET trans == Append(dir, "translations")
    IN  {<<dir, DirEntry>>}
        \cup OneFile(Append(dir, "strings.json"), sc)
        \cup CASE tc = "absent" -> {}
               [] tc = "file" -> {<<trans, FileOf("complete")>>}
               [] OTHER ->
                    {<<trans, DirEntry>>, <<Append(trans, "notes.txt"), BadFile("malformed")>>}
                    \cup OneFile(Append(trans, "sv.json"), svc)
                    \cup OneFile(Append(trans, "de.json"), dec)

\* the entries a scan has to pass over
PassedOver(container) ==
    {<<Append(container, ".hidden"), DirEntry>>,
     <<container \o <<".hidden", "strings.json">>, FileOf("example")>>,
     <<Append(container, "__pycache__"), DirEntry>>,
     <<Append(container, "README.md"), BadFile("malformed")>>}

ConfigFs(layout, sc, tc, svc, dec, beta) ==
    LET cc == Append(Config, "custom_components")
        container == IF layout = "cc" THEN cc ELSE Config
    IN  FsOf({<<Config, DirEntry>>, <<Home, DirEntry>>, <<LockedFile, BadFile("locked")>>}
             \cup IF layout = "empty" THEN {}
                  ELSE (CASE layout = "cc" ->
                               {<<cc, DirEntry>>}
                               \cup IntegrationEntries(Append(Config, "outside"),
                                                       "example", "absent", "absent", "absent")
                          [] layout = "ccempty" -> {<<cc, DirEntry>>}
                          [] layout = "ccfile" -> {<<cc, FileOf("none")>>}
                          [] OTHER -> {})
                       \cup PassedOver(container)
                       \cup IntegrationEntries(Append(container, "alpha"), sc, tc, svc, dec)
                       \cup IF beta = "absent" THEN {}
                            ELSE IntegrationEntries(Append(container, "beta"), "one",
                                                    beta, "onetranslated", "absent"))

\* the file systems of the scans
IsScanFs(f) ==
    \/ f = ConfigFs("empty", "absent", "absent", "absent", "absent", "absent")
    \/ \E layout \in {"cc", "flat"}, sc \in StringsChoices, beta \in {"absent", "dir"} :
          \/ \E tc \in {"absent", "file"} :
                f = ConfigFs(layout, sc, tc, "absent", "absent", beta)
          \/ \E svc \in SvChoices, dec \in DeChoices :
                f = ConfigFs(layout, sc, "dir", svc, dec, beta)
    \/ \E layout \in {"ccempty", "ccfile"}, beta \in {"absent", "dir"} :
          f = ConfigFs(layout, "example", "absent", "absent", "absent", beta)

\* the file systems of the editing sessions
IsEditFs(f) ==
    \/ f = ConfigFs("flat", "example", "absent", "absent", "absent", "file")
    \/ \E svc \in {"emptyvalue", "stringata", "undecodable"} :
          f = ConfigFs("flat", "example", "dir", svc, "absent", "file")

\* the strings with backslashes and double quotes that are exported: every
\* string of at most MaxEscLen characters over a letter, the backslash and
\* the double quote, and the example He said "hi"\ of the specification
MaxEscLen == 2
EscChars == {"a", "\\", "\""}
RECURSIVE EscStrings(_)
EscStrings(n) ==
    IF n = 0 THEN {EmptyStr}
    ELSE LET shorter == EscStrings(n - 1)
         IN  shorter \cup {s \o c : s \in shorter, c \in EscChars}
Quoted == "He said \"hi\"\\"
EscVals == EscStrings(MaxEscLen) \cup {Quoted}

\* the configuration directory with the integration alpha, whose one source
\* string is v, translated for sv as the string of w if w holds one
EscapeFs(v, w) ==
    LET alpha == Append(Config, "alpha")
        trans == Append(alpha, "translations")
    IN  FsOf({<<Config, DirEntry>>, <<Home, DirEntry>>, <<LockedFile, BadFile("locked")>>,
              <<alpha, DirEntry>>,
              <<Append(alpha, "strings.json"),
                JsonFile(DictNode(<< <<"m", StrNode(v)>> >>))>>}
             \cup IF w = <<>> THEN {}
                  ELSE {<<trans, DirEntry>>,
                        <<Append(trans, "sv.json"),
                          JsonFile(DictNode(<< <<"m", StrNode(w[1])>> >>))>>})

\* the file systems of the exports
IsExportFs(f) ==
    \/ \E v \in EscVals : \E w \in {<<>>, <<v>>, <<Quoted>>} : f = EscapeFs(v, w)
    \/ \E sc \in {"mixed", "example", "four", "one", "none"},
          svc \in {"absent", "complete", "emptyvalue", "extrakey", "mixedsv"} :
          f = ConfigFs("flat", sc, "dir", svc, "absent", "absent")

\* the folders the folder dialog offers
Folders(f) == {p \in {Config, Append(Config, "custom_components")} : IsDirAt(f, p)}

\* the texts of a language entry, and of the target text view
LangTexts == {EmptyStr, " sv "}
TargetTexts == {EmptyStr, "hej"}

\* the files the user picks in the save dialog of an export
ExportPaths == {Append(Home, "export.out"), LockedFile}

(***************************************************************************)
(* The state: the inputs of the flatten and rebuild pipeline, the file     *)
(* system, and the fields of ScannerView, StringsView, TranslationEditor,  *)
(* MainWindow and ExportDialog                                             *)
(***************************************************************************)
VARIABLES
    origin,     \* "tree": a JSON tree is flattened and rebuilt;
                \* "table": a string table is rebuilt and flattened again;
                \* "app": the application runs
    inTree,     \* the JSON tree given (origin "tree")
    inTable,    \* the string table given (origin "table")
    table,      \* the string table at hand
    nested,     \* the outcome of the rebuild: Ok(tree) or Raised(exception)
    pc,         \* "start", "flat" (after flatten), "nested" (after the
                \* rebuild), "done"
    fs,                     \* the file system
    scanner_scan_path,      \* ScannerView._scan_path
    scanner_integrations,   \* ScannerView._integrations
    scanner_store,          \* ScannerView._store
    view_source_strings,    \* StringsView._source_strings
    view_target_strings,    \* StringsView._target_strings
    view_all_keys,          \* StringsView._all_keys
    view_store,             \* StringsView._store
    editor_strings,         \* TranslationEditor._strings
    editor_translations,    \* TranslationEditor._translations
    editor_statuses,        \* TranslationEditor._statuses
    editor_current_key,     \* TranslationEditor._current_key
    editor_component_path,  \* TranslationEditor._component_path
    editor_target_lang,     \* TranslationEditor._target_lang
    editor_modified,        \* TranslationEditor._modified
    editor_list_store,      \* TranslationEditor._list_store
    editor_target_buf,      \* the text of TranslationEditor._target_view
    editor_status_combo,    \* the selection of TranslationEditor._status_combo
    same_dict,              \* StringsView._target_strings and
                            \* TranslationEditor._translations are one dict
    editor_loaded_lang,     \* the language whose file gave TranslationEditor._translations
    stats_label,            \* MainWindow._stats_label
    status_label,           \* MainWindow._status_label
    export_status,          \* ExportDialog._status of the last dialog
    raised,                 \* the last exception a handler let escape, or
                            \* that an exporter raised to its dialog
    written,                \* the last file written by Save or an export; for
                            \* Save, with the component set and the language
                            \* the table was loaded from
    steps,                  \* the number of handlers run
    ha_connection,          \* MainWindow._ha_url and _ha_token
    browser_entities,       \* EntityBrowser._entities
    browser_store,          \* EntityBrowser._store
    browser_detail_title,   \* the text of EntityBrowser._detail_title
    fetches,                \* the threads EntityBrowser.refresh has started
    idle_queue,             \* the callbacks handed to GLib.idle_add, not yet run
    instances_file,         \* the content of INSTANCES_FILE
    dialog_open,            \* a ConnectionDialog is presented
    dialog_instances,       \* ConnectionDialog._instances
    dialog_profile_model,   \* ConnectionDialog._profile_model
    dialog_selected,        \* the selection of ConnectionDialog._profile_combo
    dialog_rows,            \* the texts of _name_row, _url_row and _token_row
    dialog_delete_sensitive,\* the sensitivity of ConnectionDialog._delete_btn
    dialog_status           \* the text of ConnectionDialog._status

flattenVars == <<origin, inTree, inTable, table, nested, pc>>

scannerVars == <<scanner_scan_path, scanner_integrations, scanner_store>>

viewVars == <<view_source_strings, view_target_strings, view_all_keys, view_store>>

editorVars ==
    <<editor_strings, editor_translations, editor_statuses, editor_current_key,
      editor_component_path, editor_target_lang, editor_modified, editor_list_store,
      editor_target_buf, editor_status_combo, same_dict,
      editor_loaded_lang>>

windowVars == <<stats_label, status_label, export_status>>

browserVars ==
    <<ha_connection, browser_entities, browser_store, browser_detail_title, fetches,
      idle_queue>>

dialogVars ==
    <<instances_file, dialog_open, dialog_instances, dialog_profile_model,
      dialog_selected, dialog_rows, dialog_delete_sensitive, dialog_status>>

netVars == <<browserVars, dialogVars>>

appVars ==
    <<fs, scannerVars, viewVars, editorVars, windowVars, raised, written, steps,
      netVars>>

\* a handler runs
Step == steps < MaxSteps /\ steps' = steps + 1

vars == <<flattenVars, appVars>>

\* None, and a value that is not None
None == <<>>
Some(x) == <<x>>

\* the truth value of a str that may be None
Truthy(o) == o # None /\ o[1] # EmptyStr

\* a message with its argument
Message(msg, arg) == [msg |-> msg, arg |-> arg]

\* the widgets as their constructors leave them
Constructed ==
    /\ scanner_scan_path = None
    /\ scanner_integrations = <<>>
    /\ scanner_store = <<>>
    /\ view_source_strings = EmptyDict
    /\ view_target_strings = EmptyDict
    /\ view_all_keys = <<>>
    /\ view_store = <<>>
    /\ editor_strings = EmptyDict
    /\ editor_translations = EmptyDict
    /\ editor_statuses = EmptyDict
    /\ editor_current_key = None
    /\ editor_component_path = None
    /\ editor_target_lang = None
    /\ editor_modified = FALSE
    /\ editor_list_store = <<>>
    /\ editor_target_buf = EmptyStr
    /\ editor_status_combo = 2
    /\ same_dict = FALSE
    /\ editor_loaded_lang = None
    /\ stats_label = None
    /\ status_label = Message("Ready", <<>>)
    /\ export_status = Message(EmptyStr, <<>>)
    /\ raised = "none"
    /\ written = None
    /\ steps = 0
    /\ ha_connection = None
    /\ browser_entities = <<>>
    /\ browser_store = <<>>
    /\ browser_detail_title = Message("Select an entity", <<>>)
    /\ fetches = <<>>
    /\ idle_queue = <<>>
    /\ instances_file = None
    /\ dialog_open = FALSE
    /\ dialog_instances = <<>>
    /\ dialog_profile_model = <<>>
    /\ dialog_selected = 0
    /\ dialog_rows = [name |-> EmptyStr, url |-> EmptyStr, token |-> EmptyStr]
    /\ dialog_delete_sensitive = FALSE
    /\ dialog_status = EmptyStr

(***************************************************************************)
(* Flatten and rebuild, applied to every bounded input                     *)
(***************************************************************************)
FlattenInit ==
    /\ \/ /\ origin = "tree"
          /\ IsBoundedTree(inTree) \/ inTree = ExampleTree
          /\ inTable = EmptyDict
       \/ /\ origin = "table"
          /\ inTree = DictNode(EmptyDict)
          /\ IsBoundedTable(inTable)
    /\ table = inTable
    /\ nested = Ok(inTree)
    /\ pc = "start"
    /\ fs = FsOf({})
    /\ Constructed

\* the tree a flattener is applied to
CurrentTree == IF origin = "tree" THEN inTree ELSE nested.value

FlattenReady ==
    \/ origin = "tree" /\ pc = "start"
    \/ origin = "table" /\ pc = "nested" /\ nested.ok

\* strings.py: _flatten_json(data, "", strings) on a fresh dict
ApplyFlattenJson ==
    /\ FlattenReady
    /\ table' = _flatten_json(CurrentTree, EmptyStr, EmptyDict)
    /\ pc' = IF origin = "tree" THEN "flat" ELSE "done"
    /\ UNCHANGED <<origin, inTree, inTable, nested, appVars>>

\* scanner.py: _flatten(data, "", strings) on a fresh dict
ApplyFlatten ==
    /\ FlattenReady
    /\ table' = _flatten(CurrentTree, EmptyStr, EmptyDict)
    /\ pc' = IF origin = "tree" THEN "flat" ELSE "done"
    /\ UNCHANGED <<origin, inTree, inTable, nested, appVars>>

RebuildReady ==
    \/ origin = "table" /\ pc = "start"
    \/ origin = "tree" /\ pc = "flat"

\* export.py: the rebuild of export_ha_json
ApplyExportRebuild ==
    /\ RebuildReady
    /\ nested' = export_ha_json_nested(table)
    /\ pc' = IF origin = "table" THEN "nested" ELSE "done"
    /\ UNCHANGED <<origin, inTree, inTable, table, appVars>>

\* editor.py: the rebuild of TranslationEditor._on_save
ApplySaveRebuild ==
    /\ RebuildReady
    /\ nested' = _on_save_nested(table)
    /\ pc' = IF origin = "table" THEN "nested" ELSE "done"
    /\ UNCHANGED <<origin, inTree, inTable, table, appVars>>

FlattenNext ==
    \/ ApplyFlattenJson
    \/ ApplyFlatten
    \/ ApplyExportRebuild
    \/ ApplySaveRebuild

SpecFlatten == FlattenInit /\ [][FlattenNext]_vars

(***************************************************************************)
(* scanner.ScannerView                                                     *)
(***************************************************************************)
\* ScannerView._rebuild: the rows of the store (name, strings.json,
\* translations/, languages)
ScannerRows(infos) ==
    [i \in 1..Len(infos) |->
        <<infos[i].name, infos[i].has_strings, infos[i].has_translations,
          infos[i].languages>>]

\* ScannerView._on_folder_selected, for the folder the dialog gives
OnFolderSelected ==
    /\ origin = "app"
    /\ Step
    /\ \E path \in Folders(fs) : scanner_scan_path' = Some(path)
    /\ UNCHANGED <<flattenVars, netVars, fs, scanner_integrations, scanner_store, viewVars,
                   editorVars, windowVars, raised, written>>

\* ScannerView._on_scan
OnScan ==
    /\ origin = "app"
    /\ Step
    /\ scanner_scan_path # None
    /\ LET r == scan_integrations(fs, scanner_scan_path[1])
       IN  IF r.ok
           THEN /\ scanner_integrations' = r.value
                /\ scanner_store' = ScannerRows(r.value)
                /\ status_label' = Message("Found %d integrations", <<Len(r.value)>>)
                /\ UNCHANGED raised
           ELSE /\ raised' = r.error
                /\ UNCHANGED <<scanner_integrations, scanner_store, status_label>>
    /\ UNCHANGED <<flattenVars, netVars, fs, scanner_scan_path, viewVars, editorVars,
                   stats_label, export_status, written>>

(***************************************************************************)
(* editor.TranslationEditor                                                *)
(***************************************************************************)
\* self._strings[key][:40]
Preview(text) == SubSeq(text, 1, IF Len(text) < 40 THEN Len(text) ELSE 40)

\* _rebuild_list: the rows of the list store
_rebuild_list(strings, statuses) ==
    LET keys == Sorted(DictKeys(strings))
    IN  [i \in 1..Len(keys) |->
            <<keys[i], Preview(DictAt(strings, keys[i])),
              DictGet(statuses, keys[i], STATUS_UNTRANSLATED)>>]

\* a status loop that marks a key whose translation is empty as fuzzy
RECURSIVE StatusesFromMarkingEmptyFuzzy(_, _, _)
StatusesFromMarkingEmptyFuzzy(statuses, strings, translations) ==
    IF strings = <<>> THEN statuses
    ELSE LET key == strings[1][1]
         IN  StatusesFromMarkingEmptyFuzzy(
                 DictSet(statuses, key,
                         IF ~DictHas(translations, key) THEN STATUS_UNTRANSLATED
                         ELSE IF DictAt(translations, key) # EmptyStr THEN STATUS_TRANSLATED
                         ELSE STATUS_FUZZY),
                 Tail(strings), translations)

\* the status loop of load_strings and of _on_lang_changed, over the keys
\* of the source table
RECURSIVE StatusesFrom(_, _, _)
StatusesFrom(statuses, strings, translations) ==
    IF strings = <<>> THEN statuses
    ELSE LET key == strings[1][1]
         IN  StatusesFrom(
                 DictSet(statuses, key,
                         IF DictHas(translations, key) /\ DictAt(translations, key) # EmptyStr
                         THEN STATUS_TRANSLATED ELSE STATUS_UNTRANSLATED),
                 Tail(strings), translations)

\* the entries of the status dropdown
StatusOfIndex(idx) == <<STATUS_TRANSLATED, STATUS_FUZZY, STATUS_UNTRANSLATED>>[idx + 1]
IndexOfStatus(status) ==
    IF status = STATUS_TRANSLATED THEN 0 ELSE IF status = STATUS_FUZZY THEN 1 ELSE 2

\* the fields the signal handlers of the editor write
Editor ==
    [translations |-> editor_translations, statuses |-> editor_statuses,
     modified |-> editor_modified, list_store |-> editor_list_store,
     status_combo |-> editor_status_combo, target_buf |-> editor_target_buf]

\* the editor takes the fields of e; a dict shared with the strings view
\* changes there too
EditorBecomes(e) ==
    /\ editor_translations' = e.translations
    /\ editor_statuses' = e.statuses
    /\ editor_modified' = e.modified
    /\ editor_list_store' = e.list_store
    /\ editor_status_combo' = e.status_combo
    /\ editor_target_buf' = e.target_buf
    /\ view_target_strings' = IF same_dict THEN e.translations ELSE view_target_strings

\* _on_status_changed, run on notify::selected
_on_status_changed(e, current_key, strings) ==
    IF Truthy(current_key)
    THEN LET statuses == DictSet(e.statuses, current_key[1], StatusOfIndex(e.status_combo))
         IN  [e EXCEPT !.statuses = statuses,
                       !.list_store = _rebuild_list(strings, statuses),
                       !.modified = TRUE]
    ELSE e

\* self._status_combo.set_selected(idx): notifies when the selection changes
set_selected(e, idx, current_key, strings) ==
    IF e.status_combo = idx THEN e
    ELSE _on_status_changed([e EXCEPT !.status_combo = idx], current_key, strings)

\* _on_target_changed, run on changed of the target buffer
_on_target_changed(e, current_key, strings) ==
    IF Truthy(current_key)
    THEN LET text == e.target_buf
             e1 == [e EXCEPT !.translations = DictSet(@, current_key[1], text)]
             e2 == IF text # EmptyStr
                   THEN set_selected(
                            [e1 EXCEPT !.statuses = DictSet(@, current_key[1], STATUS_TRANSLATED)],
                            0, current_key, strings)
                   ELSE e1
         IN  [e2 EXCEPT !.modified = TRUE]
    ELSE e

\* Gtk.TextBuffer.set_text with the handler connected: the buffer emits
\* changed after deleting the old text, if any, and after inserting the new
\* text, if any
set_text(e, text, current_key, strings) ==
    LET e1 == IF e.target_buf # EmptyStr
              THEN _on_target_changed([e EXCEPT !.target_buf = EmptyStr], current_key, strings)
              ELSE e
    IN  IF text # EmptyStr
        THEN _on_target_changed([e1 EXCEPT !.target_buf = text], current_key, strings)
        ELSE e1

\* _on_key_selected, for the row the user selects
OnKeySelected ==
    /\ origin = "app"
    /\ Step
    /\ \E i \in 1..Len(editor_list_store) :
          LET key == editor_list_store[i][1]
              status == DictGet(editor_statuses, key, STATUS_UNTRANSLATED)
          IN  /\ editor_current_key' = Some(key)
              /\ EditorBecomes(
                     set_selected(
                         [Editor EXCEPT
                             !.target_buf = DictGet(editor_translations, key, EmptyStr)],
                         IndexOfStatus(status), Some(key), editor_strings))
    /\ UNCHANGED <<flattenVars, netVars, fs, scannerVars, view_source_strings, view_all_keys,
                   view_store, editor_strings, editor_component_path,
                   editor_target_lang, same_dict,
                   editor_loaded_lang, windowVars, raised, written>>

\* the user changes the target text: _on_target_changed
OnTargetChanged ==
    /\ origin = "app"
    /\ Step
    /\ \E text \in TargetTexts \ {editor_target_buf} :
          EditorBecomes(
              _on_target_changed([Editor EXCEPT !.target_buf = text],
                                 editor_current_key, editor_strings))
    /\ UNCHANGED <<flattenVars, netVars, fs, scannerVars, view_source_strings, view_all_keys,
                   view_store, editor_strings, editor_current_key,
                   editor_component_path, editor_target_lang, same_dict,
                   editor_loaded_lang, windowVars,
                   raised, written>>

\* the user changes the status dropdown: _on_status_changed
OnStatusChanged ==
    /\ origin = "app"
    /\ Step
    /\ \E idx \in {0, 1, 2} \ {editor_status_combo} :
          EditorBecomes(set_selected(Editor, idx, editor_current_key, editor_strings))
    /\ UNCHANGED <<flattenVars, netVars, fs, scannerVars, view_source_strings, view_all_keys,
                   view_store, editor_strings, editor_current_key,
                   editor_component_path, editor_target_lang, same_dict,
                   editor_loaded_lang, windowVars,
                   raised, written>>

\* _on_copy_source
OnCopySource ==
    /\ origin = "app"
    /\ Step
    /\ Truthy(editor_current_key)
    /\ EditorBecomes(
           set_text(Editor, DictGet(editor_strings, editor_current_key[1], EmptyStr),
                    editor_current_key, editor_strings))
    /\ UNCHANGED <<flattenVars, netVars, fs, scannerVars, view_source_strings, view_all_keys,
                   view_store, editor_strings, editor_current_key,
                   editor_component_path, editor_target_lang, same_dict,
                   editor_loaded_lang, windowVars,
                   raised, written>>

\* _on_lang_changed, for the text of the language entry
OnLangChanged ==
    /\ origin = "app"
    /\ Step
    /\ editor_component_path # None
    /\ \E text \in LangTexts :
          LET lang == Strip(text)
              trans == load_translations_for_component(fs, editor_component_path[1], lang)
          IN  /\ lang # EmptyStr
              /\ editor_target_lang' = Some(lang)
              /\ IF trans.ok
                 THEN LET statuses == StatusesFrom(editor_statuses, editor_strings, trans.value)
                      IN  /\ editor_translations' = trans.value
                          /\ editor_statuses' = statuses
                          /\ editor_list_store' = _rebuild_list(editor_strings, statuses)
                          /\ same_dict' = FALSE
                          /\ editor_loaded_lang' = Some(lang)
                          /\ UNCHANGED raised
                 ELSE /\ raised' = trans.error
                      /\ UNCHANGED <<editor_translations, editor_statuses,
                                     editor_list_store, same_dict,
                                     editor_loaded_lang>>
    /\ UNCHANGED <<flattenVars, netVars, fs, scannerVars, viewVars, editor_strings,
                   editor_current_key, editor_component_path, editor_modified,
                   editor_target_buf, editor_status_combo, windowVars, written>>

\* _on_save
OnSave ==
    /\ origin = "app"
    /\ Step
    /\ IF editor_component_path = None \/ editor_target_lang = None
       THEN UNCHANGED <<fs, editor_modified, status_label, written, raised>>
       ELSE
       LET tree == _on_save_nested(editor_translations)
           path == Append(editor_component_path[1], "translations")
           out == Append(path, editor_target_lang[1] \o ".json")
           made == Mkdir(fs, path)
           wrote == WriteFile(made.value, out, JsonFile(tree.value))
       IN  IF ~tree.ok
           THEN /\ raised' = tree.error
                /\ UNCHANGED <<fs, editor_modified, status_label, written>>
           ELSE IF ~made.ok
           THEN /\ raised' = made.error
                /\ UNCHANGED <<fs, editor_modified, status_label, written>>
           ELSE IF ~wrote.ok
           THEN /\ raised' = wrote.error
                /\ fs' = made.value
                /\ UNCHANGED <<editor_modified, status_label, written>>
           ELSE /\ fs' = wrote.value
                /\ editor_modified' = FALSE
                /\ status_label' = Message("Saved translations to %s", out)
                /\ written' = Some([by |-> "save", path |-> out,
                                    table |-> editor_translations,
                                    component |-> editor_component_path[1],
                                    loaded |-> editor_loaded_lang])
                /\ UNCHANGED raised
    /\ UNCHANGED <<flattenVars, netVars, scannerVars, viewVars, editor_strings,
                   editor_translations, editor_statuses, editor_current_key,
                   editor_component_path, editor_target_lang, editor_list_store,
                   editor_target_buf, editor_status_combo, same_dict,
                   editor_loaded_lang, stats_label,
                   export_status>>

(***************************************************************************)
(* main.MainWindow                                                         *)
(***************************************************************************)
\* _on_integration_selected(info), for the text of the language entry of
\* the header bar
_on_integration_selected(info, text) ==
    LET path == info.path
        source == extract_strings_from_component(fs, path)
        lang == IF Strip(text) # EmptyStr THEN Strip(text) ELSE "en"
        target == load_translations_for_component(fs, path, lang)
    IN  IF ~source.ok \/ ~target.ok
        THEN /\ raised' = IF ~source.ok THEN source.error ELSE target.error
             /\ UNCHANGED <<viewVars, editorVars, stats_label, status_label>>
        ELSE /\ view_source_strings' = source.value
             /\ view_target_strings' = target.value
             /\ view_all_keys' = AllKeysOf(source.value)
             /\ view_store' = StoreRows(source.value, target.value)
             /\ editor_component_path' = Some(path)
             /\ editor_strings' = source.value
             /\ editor_translations' = target.value
             /\ editor_statuses' = StatusesFrom(EmptyDict, source.value, target.value)
             /\ editor_list_store' = _rebuild_list(source.value, editor_statuses')
             /\ same_dict' = (target.value # EmptyDict)
             /\ editor_loaded_lang' = Some(lang)
             /\ stats_label' = CoverageStats(view_all_keys', view_target_strings')
             /\ status_label' = Message("Loaded integration '%s'", <<info.name>>)
             /\ UNCHANGED <<editor_current_key, editor_target_lang, editor_modified,
                            editor_target_buf, editor_status_combo, raised>>

\* ScannerView._on_row_activated, for the row the user activates
OnRowActivated ==
    /\ origin = "app"
    /\ Step
    /\ \E i \in 1..Len(scanner_store), text \in LangTexts :
          LET name == scanner_store[i][1]
              first == CHOOSE j \in 1..Len(scanner_integrations) :
                          /\ scanner_integrations[j].name = name
                          /\ \A k \in 1..(j - 1) : scanner_integrations[k].name # name
          IN  _on_integration_selected(scanner_integrations[first], text)
    /\ UNCHANGED <<flattenVars, netVars, fs, scannerVars, export_status, written>>

\* _get_export_data, for the text of the language entry of the header bar
_get_export_data(text) ==
    [strings |-> get_strings_data(view_all_keys, view_source_strings, view_target_strings),
     source_strings |-> view_source_strings,
     translations |-> view_target_strings,
     target_lang |-> IF Strip(text) # EmptyStr THEN Strip(text) ELSE "xx"]

(***************************************************************************)
(* export.ExportDialog                                                     *)
(***************************************************************************)
\* the file the exporter of fmt_idx writes, or the exception of its rebuild
Exported(fmt_idx, data) ==
    CASE fmt_idx = 0 -> Ok(TextFile(export_csv(data.strings)))
      [] fmt_idx = 1 -> Ok(TextFile(export_json_report(data.strings)))
      [] fmt_idx = 2 ->
            LET tree == export_ha_json_nested(data.translations)
            IN  IF tree.ok THEN Ok(JsonFile(tree.value)) ELSE tree
      [] fmt_idx = 3 -> Ok(TextFile(export_pot(data.source_strings, "ha-custom-component")))
      [] OTHER -> Ok(TextFile(export_po(data.source_strings, data.translations,
                                        data.target_lang, "ha-custom-component")))

\* the exporter's name
ExporterName(fmt_idx) ==
    <<"export_csv", "export_json_report", "export_ha_json", "export_pot",
      "export_po">>[fmt_idx + 1]

\* _on_save_response, for the format chosen and the file the dialog gives
OnSaveResponse ==
    /\ origin = "app"
    /\ Step
    /\ \E fmt_idx \in 0..4, filepath \in ExportPaths :
          \E text \in IF fmt_idx = 4 THEN LangTexts ELSE {EmptyStr} :
             LET data == _get_export_data(text)
                 file == Exported(fmt_idx, data)
                 wrote == WriteFile(fs, filepath, file.value)
             IN  IF ~file.ok \/ ~wrote.ok
                 THEN /\ raised' = IF ~file.ok THEN file.error ELSE wrote.error
                      /\ export_status' = Message("Error: %s", <<raised'>>)
                      /\ UNCHANGED <<fs, written>>
                 ELSE /\ fs' = wrote.value
                      /\ export_status' = Message("Exported to %s", filepath)
                      /\ written' = Some([by |-> ExporterName(fmt_idx), path |-> filepath,
                                          table |-> data.translations])
                      /\ UNCHANGED raised
    /\ UNCHANGED <<flattenVars, netVars, scannerVars, viewVars, editorVars, stats_label,
                   status_label>>

(***************************************************************************)
(* entities.EntityBrowser, and the connection of main.MainWindow           *)
(***************************************************************************)
\* the most fetches that are started
MaxRefreshes == 3

\* what fetch_states gives: the states the instance answers with at the
\* time, or the exception of ha_api_request; an entity is the record of its
\* entity_id, the friendly_name of its attributes and its state
StatesEarlier ==
    << [entity_id |-> "light.kitchen", friendly_name |-> "Kitchen Light", state |-> "on"] >>
StatesLater ==
    << [entity_id |-> "light.kitchen", friendly_name |-> "Kitchen Light", state |-> "off"],
       [entity_id |-> "sensor.temp", friendly_name |-> "Temperatur", state |-> "21"],
       [entity_id |-> "orphan", state |-> "on"] >>
Answers == {Ok(StatesEarlier), Ok(StatesLater), Raised("URLError")}

\* the URLs and tokens a connection is made with
Urls == {"http://ha.local:8123"}
Tokens == {EmptyStr, "token"}

\* _is_likely_english: name.isascii() and ' ' in name, for a non-empty name
_is_likely_english(name) == name # EmptyStr /\ Contains(name, " ")

\* _rebuild_tree: the loop over the entities; the store is the sequence of
\* the domain rows, each with the rows of its entities
RECURSIVE RebuildTreeFrom(_, _)
RebuildTreeFrom(store, entities) ==
    IF entities = <<>> THEN store
    ELSE LET e == entities[1]
             eid == Field(e, "entity_id")
             domain == IF Contains(eid, Dot) THEN Split(eid)[1] ELSE "unknown"
             fname == Field(e, "friendly_name")
             row == <<eid, fname, Field(e, "state"), _is_likely_english(fname)>>
             known == {i \in 1..Len(store) : store[i].domain = domain}
             next == IF known = {}
                     THEN Append(store, [domain |-> domain, rows |-> <<row>>])
                     ELSE [store EXCEPT ![CHOOSE i \in known : TRUE].rows = Append(@, row)]
         IN  RebuildTreeFrom(next, Tail(entities))

\* _rebuild_tree(entities): the store after it
_rebuild_tree(entities) == RebuildTreeFrom(<<>>, entities)

\* MainWindow._get_connection, of the fields _ha_url and _ha_token
_get_connection(connection) ==
    IF connection # None /\ connection[1].url # EmptyStr /\ connection[1].token # EmptyStr
    THEN connection
    ELSE None

\* EntityBrowser.refresh: the threads after it; a thread is in fetch_states
\* ("fetching"), in its except clause after idle_add ("except"), or over
refresh(connection, threads) ==
    IF _get_connection(connection) = None THEN threads
    ELSE Append(threads, [pc |-> "fetching", answer |-> None])

\* MainWindow._on_connected(url, token)
OnConnected ==
    /\ origin = "app"
    /\ Len(fetches) < MaxRefreshes
    /\ \E url \in Urls, token \in Tokens :
          /\ ha_connection' = Some([url |-> url, token |-> token])
          /\ status_label' = Message("Connected to %s", url)
          /\ fetches' = refresh(ha_connection', fetches)
    /\ UNCHANGED <<flattenVars, fs, scannerVars, viewVars, editorVars, stats_label,
                   export_status, raised, written, steps, browser_entities,
                   browser_store, browser_detail_title, idle_queue, dialogVars>>

\* MainWindow.refresh_data, for the page that is visible
OnRefreshData ==
    /\ origin = "app"
    /\ Len(fetches) < MaxRefreshes
    /\ \E page \in {"scanner", "entities"} :
          fetches' = IF page = "entities" THEN refresh(ha_connection, fetches) ELSE fetches
    /\ status_label' = Message("Refreshed", <<>>)
    /\ UNCHANGED <<flattenVars, fs, scannerVars, viewVars, editorVars, stats_label,
                   export_status, raised, written, steps, ha_connection,
                   browser_entities, browser_store, browser_detail_title, idle_queue,
                   dialogVars>>

\* do_fetch of a thread: fetch_states returns or raises, and the thread
\* hands its callback to the main loop
FetchReturns ==
    /\ origin = "app"
    /\ \E n \in 1..Len(fetches), answer \in Answers :
          /\ fetches[n].pc = "fetching"
          /\ fetches' = [fetches EXCEPT ![n] = [pc |-> IF answer.ok THEN "over" ELSE "except",
                                                answer |-> Some(answer)]]
          /\ idle_queue' = Append(idle_queue,
                                  [thread |-> n,
                                   run |-> IF answer.ok THEN "load_entities" ELSE "set_text"])
    /\ UNCHANGED <<flattenVars, fs, scannerVars, viewVars, editorVars, windowVars,
                   raised, written, steps, ha_connection, browser_entities,
                   browser_store, browser_detail_title, dialogVars>>

\* do_fetch of a thread leaves its except clause, which unbinds e
FetchLeavesExcept ==
    /\ origin = "app"
    /\ \E n \in 1..Len(fetches) :
          /\ fetches[n].pc = "except"
          /\ fetches' = [fetches EXCEPT ![n].pc = "over"]
    /\ UNCHANGED <<flattenVars, fs, scannerVars, viewVars, editorVars, windowVars,
                   raised, written, steps, ha_connection, browser_entities,
                   browser_store, browser_detail_title, idle_queue, dialogVars>>

\* the main loop runs the callback handed over first: load_entities(states)
\* of the thread, or the set_text of its except clause, whose lambda reads
\* e when it runs
OnIdle ==
    /\ origin = "app"
    /\ idle_queue # <<>>
    /\ idle_queue' = Tail(idle_queue)
    /\ LET thread == fetches[Head(idle_queue).thread]
       IN  IF Head(idle_queue).run = "load_entities"
           THEN /\ browser_entities' = thread.answer[1].value
                /\ browser_store' = _rebuild_tree(thread.answer[1].value)
                /\ UNCHANGED <<browser_detail_title, raised>>
           ELSE IF thread.pc = "except"
           THEN /\ browser_detail_title' = Message("Error: %s", <<thread.answer[1].error>>)
                /\ UNCHANGED <<browser_entities, browser_store, raised>>
           ELSE /\ raised' = "NameError"
                /\ UNCHANGED <<browser_entities, browser_store, browser_detail_title>>
    /\ UNCHANGED <<flattenVars, fs, scannerVars, viewVars, editorVars, windowVars,
                   written, steps, ha_connection, fetches, dialogVars>>

(***************************************************************************)
(* connection.ConnectionDialog                                             *)
(***************************************************************************)
\* the most instances that are saved
MaxInstances == 2

\* the texts the user types in the rows of the dialog
DefaultUrl == "http://homeassistant.local:8123"
RowTexts ==
    {[name |-> name, url |-> url, token |-> "token"] :
        name \in {EmptyStr, "Home", "Lab"}, url \in {DefaultUrl, "http://lab:8123"}}

\* load_instances: the list of the file, or [] without the file
load_instances(file) == IF file = None THEN <<>> ELSE file[1]

\* save_instances: the file after it
save_instances(instances) == Some(instances)

\* inst.get('name', inst.get('url', ''))
ProfileLabel(inst) ==
    IF "name" \in DOMAIN inst THEN inst.name ELSE Field(inst, "url")

\* the string list built in __init__ and rebuilt in _on_delete
ProfileModel(instances) ==
    <<"New connection">> \o [i \in 1..Len(instances) |-> ProfileLabel(instances[i])]

\* the rows after _on_profile_selected
ProfileRows(idx, instances) ==
    IF idx > 0 /\ idx - 1 < Len(instances)
    THEN [name |-> Field(instances[idx], "name"), url |-> Field(instances[idx], "url"),
          token |-> Field(instances[idx], "token")]
    ELSE [name |-> EmptyStr, url |-> DefaultUrl, token |-> EmptyStr]

\* MainWindow._on_connect: ConnectionDialog.__init__ and present
OnConnect ==
    /\ origin = "app"
    /\ ~dialog_open
    /\ dialog_open' = TRUE
    /\ dialog_instances' = load_instances(instances_file)
    /\ dialog_profile_model' = ProfileModel(dialog_instances')
    /\ dialog_selected' = 0
    /\ dialog_rows' = [name |-> EmptyStr, url |-> DefaultUrl, token |-> EmptyStr]
    /\ dialog_delete_sensitive' = FALSE
    /\ dialog_status' = EmptyStr
    /\ UNCHANGED <<flattenVars, fs, scannerVars, viewVars, editorVars, windowVars,
                   raised, written, steps, browserVars, instances_file>>

\* the dialog is closed
OnDialogClosed ==
    /\ origin = "app"
    /\ dialog_open
    /\ dialog_open' = FALSE
    /\ UNCHANGED <<flattenVars, fs, scannerVars, viewVars, editorVars, windowVars,
                   raised, written, steps, browserVars, instances_file,
                   dialog_instances, dialog_profile_model, dialog_selected, dialog_rows,
                   dialog_delete_sensitive, dialog_status>>

\* _on_profile_selected, for the entry of the dropdown the user selects
OnProfileSelected ==
    /\ origin = "app"
    /\ dialog_open
    /\ \E idx \in 0..(Len(dialog_profile_model) - 1) :
          /\ idx # dialog_selected
          /\ dialog_selected' = idx
          /\ dialog_rows' = ProfileRows(idx, dialog_instances)
          /\ dialog_delete_sensitive' = (idx > 0 /\ idx - 1 < Len(dialog_instances))
    /\ UNCHANGED <<flattenVars, fs, scannerVars, viewVars, editorVars, windowVars,
                   raised, written, steps, browserVars, instances_file, dialog_open,
                   dialog_instances, dialog_profile_model, dialog_status>>

\* ConnectionDialog._on_save, for the texts the rows hold: those the
\* selection has set, or those typed since
OnSaveProfile ==
    /\ origin = "app"
    /\ dialog_open
    /\ \E rows \in RowTexts \cup {dialog_rows} :
          LET entry == [name |-> IF rows.name # EmptyStr THEN rows.name ELSE rows.url,
                        url |-> rows.url, token |-> rows.token]
              idx == dialog_selected
          IN  /\ dialog_rows' = rows
              /\ IF idx > 0 /\ idx - 1 < Len(dialog_instances)
                 THEN dialog_instances' = [dialog_instances EXCEPT ![idx] = entry]
                 ELSE /\ Len(dialog_instances) < MaxInstances
                      /\ dialog_instances' = Append(dialog_instances, entry)
    /\ instances_file' = save_instances(dialog_instances')
    /\ dialog_status' = "Profile saved"
    /\ UNCHANGED <<flattenVars, fs, scannerVars, viewVars, editorVars, windowVars,
                   raised, written, steps, browserVars, dialog_open,
                   dialog_profile_model, dialog_selected, dialog_delete_sensitive>>

\* ConnectionDialog._on_delete; the dropdown notifies while the model is
\* rebuilt, the last time for the entry New connection
OnDeleteProfile ==
    /\ origin = "app"
    /\ dialog_open
    /\ LET idx == dialog_selected
       IN  IF idx > 0 /\ idx - 1 < Len(dialog_instances)
           THEN /\ dialog_instances' =
                      [i \in 1..(Len(dialog_instances) - 1) |->
                          IF i < idx THEN dialog_instances[i] ELSE dialog_instances[i + 1]]
                /\ instances_file' = save_instances(dialog_instances')
                /\ dialog_profile_model' = ProfileModel(dialog_instances')
                /\ dialog_selected' = 0
                /\ dialog_rows' = ProfileRows(0, dialog_instances')
                /\ dialog_delete_sensitive' = FALSE
                /\ dialog_status' = "Profile deleted"
           ELSE UNCHANGED <<instances_file, dialog_instances, dialog_profile_model,
                            dialog_selected, dialog_rows, dialog_delete_sensitive,
                            dialog_status>>
    /\ UNCHANGED <<flattenVars, fs, scannerVars, viewVars, editorVars, windowVars,
                   raised, written, steps, browserVars, dialog_open>>

(***************************************************************************)
(* The scans: the scanner over every file system of the scans, and the     *)
(* selection of an integration found                                       *)
(***************************************************************************)
AppIdle ==
    /\ origin = "app"
    /\ inTree = DictNode(EmptyDict)
    /\ inTable = EmptyDict
    /\ table = EmptyDict
    /\ nested = Ok(DictNode(EmptyDict))
    /\ pc = "done"

ScanInit == AppIdle /\ IsScanFs(fs) /\ Constructed

ScanNext ==
    \/ OnFolderSelected
    \/ OnScan
    \/ OnRowActivated

SpecScan == ScanInit /\ [][ScanNext]_vars

(***************************************************************************)
(* The application: scanning, selecting, editing, saving and exporting     *)
(***************************************************************************)
Init == AppIdle /\ IsEditFs(fs) /\ Constructed

Next ==
    \/ OnFolderSelected
    \/ OnScan
    \/ OnRowActivated
    \/ OnKeySelected
    \/ OnTargetChanged
    \/ OnStatusChanged
    \/ OnCopySource
    \/ OnLangChanged
    \/ OnSave
    \/ OnSaveResponse

Spec == Init /\ [][Next]_vars

(***************************************************************************)
(* The exports: an integration is scanned and selected, and its strings    *)
(* are exported in every format                                            *)
(***************************************************************************)
ExportInit == AppIdle /\ IsExportFs(fs) /\ Constructed

ExportNext ==
    \/ OnFolderSelected
    \/ OnScan
    \/ OnRowActivated
    \/ OnSaveResponse

SpecExport == ExportInit /\ [][ExportNext]_vars

(***************************************************************************)
(* The editing without the status dropdown: integrations are selected,     *)
(* languages loaded, keys selected and target texts edited                 *)
(***************************************************************************)
EditNext ==
    \/ OnFolderSelected
    \/ OnScan
    \/ OnRowActivated
    \/ OnKeySelected
    \/ OnTargetChanged
    \/ OnLangChanged

SpecEdit == Init /\ [][EditNext]_vars

(***************************************************************************)
(* The entity browser: connections and refreshes start fetches, which      *)
(* complete in any order and hand their callbacks to the main loop         *)
(***************************************************************************)
EntitiesInit == AppIdle /\ fs = FsOf({}) /\ Constructed

EntitiesNext ==
    \/ OnConnected
    \/ OnRefreshData
    \/ FetchReturns
    \/ FetchLeavesExcept
    \/ OnIdle

SpecEntities == EntitiesInit /\ [][EntitiesNext]_vars

(***************************************************************************)
(* The connection dialog: it is opened and closed, profiles are selected,  *)
(* saved and deleted                                                       *)
(***************************************************************************)
DialogInit == AppIdle /\ fs = FsOf({}) /\ Constructed

DialogNext ==
    \/ OnConnect
    \/ OnDialogClosed
    \/ OnProfileSelected
    \/ OnSaveProfile
    \/ OnDeleteProfile

SpecDialog == DialogInit /\ [][DialogNext]_vars

(***************************************************************************)
(* Vocabulary of the properties                                            *)
(***************************************************************************)
\* the string leaves of a JSON value, each with the mapping keys on the path
\* from the root to it
RECURSIVE StrLeaves(_, _)
StrLeaves(n, path) ==
    IF IsDict(n)
    THEN UNION {StrLeaves(n.items[i][2], Append(path, n.items[i][1])) : i \in 1..Len(n.items)}
    ELSE IF IsStr(n) THEN {<<path, n.val>>}
    ELSE {}

\* the mapping keys used anywhere in a JSON value
RECURSIVE KeysIn(_)
KeysIn(n) ==
    IF IsDict(n)
    THEN DictKeys(n.items) \cup UNION {KeysIn(n.items[i][2]) : i \in 1..Len(n.items)}
    ELSE {}

\* the values found below the root of a JSON object, at any depth
RECURSIVE ValuesBelow(_)
ValuesBelow(n) ==
    IF IsDict(n)
    THEN UNION {{n.items[i][2]} \cup ValuesBelow(n.items[i][2]) : i \in 1..Len(n.items)}
    ELSE {}

\* built only of mappings and non-empty string leaves
OnlyMappingsAndNonEmptyStrings(n) ==
    \A v \in ValuesBelow(n) : IsDict(v) \/ (IsStr(v) /\ v.val # EmptyStr)

NoEmptyMappingBelowRoot(n) == DictNode(EmptyDict) \notin ValuesBelow(n)

NoDotInKeys(n) == \A k \in KeysIn(n) : ~Contains(k, Dot)

\* the empty key does not hold a mapping at the top level
TopEmptyKeyHoldsNoMapping(n) ==
    DictHas(n.items, EmptyStr) => ~IsDict(DictAt(n.items, EmptyStr))

\* the table as the set of its (key, value) pairs
Pairs(t) == {t[i] : i \in 1..Len(t)}

\* the tree that holds val alone at the path parts
RECURSIVE Nest(_, _)
Nest(parts, val) ==
    IF Len(parts) = 1 THEN DictNode(<<<<parts[1], StrNode(val)>>>>)
    ELSE DictNode(<<<<parts[1], Nest(Tail(parts), val)>>>>)

\* the path p is a proper prefix of the path q
PathPrefix(p, q) == Len(p) < Len(q) /\ SubSeq(q, 1, Len(p)) = p

\* no key of the table is a dotted-path prefix of another
PrefixFree(t) ==
    \A k1, k2 \in DictKeys(t) : ~PathPrefix(Split(k1), Split(k2))

AllValuesNonEmpty(t) == \A i \in 1..Len(t) : t[i][2] # EmptyStr

(***************************************************************************)
(* C1  unflatten(flatten(T)) = T                                           *)
(***************************************************************************)
\* C1 as stated: for every tree T built only of mappings and non-empty
\* string leaves, rebuilding the table flatten gives for T yields a tree
\* structurally equal to T.
C1_RoundTripAsStated ==
    (origin = "tree" /\ pc = "done" /\ OnlyMappingsAndNonEmptyStrings(inTree))
        => (nested.ok /\ NodeEq(nested.value, inTree))

\* C1 amended: the same, for the trees in which no mapping below the root
\* is empty, no key contains '.', and the empty key does not hold a mapping
\* at the top level.
C1_RoundTrip ==
    (/\ origin = "tree" /\ pc = "done"
     /\ OnlyMappingsAndNonEmptyStrings(inTree)
     /\ NoEmptyMappingBelowRoot(inTree)
     /\ NoDotInKeys(inTree)
     /\ TopEmptyKeyHoldsNoMapping(inTree))
        => (nested.ok /\ NodeEq(nested.value, inTree))

\* the worked example, flattened and rebuilt
C1_Witness ==
    /\ origin = "tree" /\ pc = "done"
    /\ inTree = ExampleTree
    /\ Len(table) = 2
    /\ nested.ok /\ NodeEq(nested.value, ExampleTree)

(***************************************************************************)
(* C2  flatten(unflatten(S)) = S                                           *)
(***************************************************************************)
\* C2 as stated: for every table S in which no key is a prefix of another,
\* flatten of the rebuilt tree has the same keys as S, each with the same
\* value.
C2_RoundTripAsStated ==
    (origin = "table" /\ PrefixFree(inTable))
        => /\ pc \in {"nested", "done"} => nested.ok
           /\ pc = "done" => TableEq(table, inTable)

\* C2 amended: the same, for the tables whose values are all non-empty and
\* in which no key begins with '.'.
C2_RoundTrip ==
    (/\ origin = "table" /\ PrefixFree(inTable)
     /\ AllValuesNonEmpty(inTable)
     /\ \A k \in DictKeys(inTable) : ~StartsWith(k, Dot))
        => /\ pc \in {"nested", "done"} => nested.ok
           /\ pc = "done" => TableEq(table, inTable)

\* a table with two keys below the same mapping, rebuilt and flattened
C2_Witness ==
    /\ origin = "table" /\ pc = "done"
    /\ inTable = << <<"a.b", Hello>>, <<"a.c", World>> >>
    /\ Len(nested.value.items) = 1
    /\ TableEq(table, inTable)

(***************************************************************************)
(* C3  one key a dotted-path prefix of another                             *)
(***************************************************************************)
\* C3: when one of the two keys of the table is a dotted-path prefix of the
\* other (both holding text), the rebuild completes for either order of the
\* two keys, and the write that happens last is the one kept: the result is
\* the tree of the last entry alone.
C3_LastWriteWins ==
    (/\ origin = "table" /\ pc = "nested"
     /\ Len(inTable) = 2 /\ AllValuesNonEmpty(inTable) /\ ~PrefixFree(inTable))
        => /\ nested.ok
           /\ NodeEq(nested.value, Nest(Split(inTable[2][1]), inTable[2][2]))

(***************************************************************************)
(* C4  the coverage the scanner reports                                    *)
(***************************************************************************)
\* the percentage of the source keys that have a non-empty value in the
\* target table, 0 without source keys
CoverageOfTables(source, target) ==
    LET total == Cardinality(DictKeys(source))
        translated == Cardinality({k \in DictKeys(source) :
                                     DictHas(target, k) /\ DictAt(target, k) # EmptyStr})
    IN  IF total > 0 THEN Percent(translated, total) ELSE Zero

\* C4: for every integration of the last scan and every language found in
\* its translations directory, the coverage the scanner reports is the
\* percentage of the source keys with a non-empty value in that language's
\* table, which is what get_coverage_stats gives for the two tables.
C4_ScannerCoverageAgrees ==
    \A i \in 1..Len(scanner_integrations) :
       LET info == scanner_integrations[i]
           source == extract_strings_from_component(fs, info.path)
       IN  \A j \in 1..Len(info.languages) :
              LET target == load_translations_for_component(fs, info.path, info.languages[j])
                  reported == DictAt(info.coverage, info.languages[j])
              IN  (source.ok /\ target.ok) =>
                     /\ reported = CoverageOfTables(source.value, target.value)
                     /\ reported = CoverageStats(AllKeysOf(source.value), target.value)[3]

\* alpha, with a.b translated and a.c empty in sv.json, is scanned and
\* selected for sv: the scanner reports 100 where get_coverage_stats gives 50
C4_Witness ==
    /\ status_label = Message("Loaded integration '%s'", <<"alpha">>)
    /\ stats_label = <<2, 1, [num |-> 50, den |-> 1]>>
    /\ \E i \in 1..Len(scanner_integrations) :
          /\ scanner_integrations[i].name = "alpha"
          /\ scanner_integrations[i].string_count = 2
          /\ Exists(fs, scanner_integrations[i].path \o <<"translations", "sv.json">>)
          /\ fs[scanner_integrations[i].path \o <<"translations", "sv.json">>].tree
                = WithEmptyValue
          /\ DictGet(scanner_integrations[i].coverage, "sv", Zero) = [num |-> 100, den |-> 1]

(***************************************************************************)
(* C5  nothing is raised to the UI layer                                   *)
(***************************************************************************)
\* C5: no handler of the UI layer ever sees an exception of a core
\* function: the scan, the loading of strings and translations, the rebuild
\* for save and export, and the exporters raise nothing.
C5_NothingRaised == raised = "none"

\* the translations {a: hej} are loaded for the source keys a.b and a.c, a.b
\* is translated in the editor and Save is pressed: the rebuild raises
\* TypeError out of _on_save, nothing is written
C5_Witness ==
    /\ raised = "TypeError"
    /\ editor_target_lang = Some("sv")
    /\ editor_translations = << <<"a", "hej">>, <<"a.b", "hej">> >>
    /\ editor_modified
    /\ written = None
    /\ export_status = Message(EmptyStr, <<>>)

(***************************************************************************)
(* C6  a bad file contributes nothing                                      *)
(***************************************************************************)
\* the files that are no JSON or cannot be read: strings.json of a
\* directory, or a *.json of its translations directory, that is of one of
\* the kinds given, or a directory
IsBadFile(f, p, kinds) ==
    /\ \/ NameOf(p) = "strings.json"
       \/ EndsWith(NameOf(p), ".json") /\ NameOf(Parent(p)) = "translations"
    /\ \/ f[p].type = "dir"
       \/ f[p].kind \in kinds

\* the file system without the file p
Without(f, p) == [q \in DOMAIN f \ {p} |-> f[q]]

\* the dict d without the key k
DictWithout(d, k) == SelectSeq(d, LAMBDA e : e[1] # k)

\* what the scan with the bad file p gives for an integration, against what
\* it gives without p
ContributesNothing(f, p, with, without) ==
    IF with.path = Parent(p)
    THEN /\ with.has_strings /\ with.string_count = 0
         /\ [with EXCEPT !.has_strings = FALSE] = without
    ELSE IF with.path = Parent(Parent(p))
    THEN LET lang == Stem(NameOf(p))
         IN  /\ DictGet(with.coverage, lang, OtherNode) = Zero
             /\ [with EXCEPT !.languages = SelectSeq(@, LAMBDA l : l # lang),
                             !.coverage = DictWithout(@, lang)] = without
    ELSE with = without

\* for every bad file of the kinds given, the scan gives an entry for every
\* integration, string_count 0 for a bad strings.json and coverage 0 for a
\* bad language file, everything else being as it is without the file;
\* extract_strings_from_component and load_translations_for_component give
\* the empty table for the file
BadFilesContributeNothing(kinds) ==
    \A p \in {q \in DOMAIN fs : IsBadFile(fs, q, kinds)} :
       /\ \A root \in Folders(fs) :
             LET with == scan_integrations(fs, root)
                 without == scan_integrations(Without(fs, p), root)
             IN  without.ok =>
                    /\ with.ok
                    /\ Len(with.value) = Len(without.value)
                    /\ \A i \in 1..Len(with.value) :
                          ContributesNothing(fs, p, with.value[i], without.value[i])
       /\ NameOf(p) = "strings.json" =>
             extract_strings_from_component(fs, Parent(p)) = Ok(EmptyDict)
       /\ NameOf(p) # "strings.json" =>
             load_translations_for_component(fs, Parent(Parent(p)), Stem(NameOf(p)))
                = Ok(EmptyDict)

\* C6: every file that is malformed JSON (text that is no JSON, or bytes
\* that are no UTF-8 text) or whose reading is an I/O error contributes
\* nothing, and only that file.
C6_BadFileContributesNothing == BadFilesContributeNothing(BadKinds)

\* the same for the files json.loads rejects and the files that cannot be
\* opened, which are the errors the except clauses name
C6_CaughtErrorsContributeNothing == BadFilesContributeNothing({"malformed", "locked"})

\* sv.json of alpha holds bytes that are no UTF-8 text: the scan raises
\* UnicodeDecodeError and leaves no entry, for beta neither
C6_Witness ==
    /\ raised = "UnicodeDecodeError"
    /\ scanner_scan_path = Some(Config)
    /\ scanner_integrations = <<>>
    /\ status_label = Message("Ready", <<>>)
    /\ Exists(fs, Config \o <<"alpha", "translations", "sv.json">>)
    /\ fs[Config \o <<"alpha", "translations", "sv.json">>].kind = "undecodable"
    /\ Exists(fs, Config \o <<"alpha", "strings.json">>)
    /\ fs[Config \o <<"alpha", "strings.json">>].kind = "json"
    /\ Exists(fs, Config \o <<"beta", "strings.json">>)
    /\ scan_integrations(Without(fs, Config \o <<"alpha", "translations", "sv.json">>),
                         Config).ok

(***************************************************************************)
(* C7  the dotted key identifies the leaf                                  *)
(***************************************************************************)
\* C7 as stated: in any tree of mappings, distinct string leaves receive
\* distinct dotted keys: the table has as many entries as the tree has
\* string leaves.
C7_KeyIdentifiesLeafAsStated ==
    (origin = "tree" /\ pc = "flat")
        => Len(table) = Cardinality(StrLeaves(inTree, <<>>))

\* C7 amended: the same, for the trees in which no key contains '.' and the
\* empty key does not hold a mapping at the top level.
C7_KeyIdentifiesLeaf ==
    (/\ origin = "tree" /\ pc = "flat"
     /\ NoDotInKeys(inTree)
     /\ TopEmptyKeyHoldsNoMapping(inTree))
        => Len(table) = Cardinality(StrLeaves(inTree, <<>>))

\* two string leaves at different depths under keys that share a segment,
\* each with its own entry: {"a": {"b": "hello"}, "b": "world"}
C7_Witness ==
    /\ origin = "tree" /\ pc = "flat"
    /\ inTree = DictNode(<< <<"a", DictNode(<< <<"b", StrNode(Hello)>> >>)>>,
                            <<"b", StrNode(World)>> >>)
    /\ Cardinality(StrLeaves(inTree, <<>>)) = 2
    /\ DictKeys(table) = {"a.b", "b"}

(***************************************************************************)
(* C8  what flatten returns                                                *)
(***************************************************************************)
\* the table C8 describes: for every string leaf, the keys on its path
\* joined by '.', mapped to the value of the leaf
JoinedLeaves(n) == {<<Join(l[1]), l[2]>> : l \in StrLeaves(n, <<>>)}

\* C8 as stated: flatten of a nested mapping returns, from either
\* implementation, exactly the entries of JoinedLeaves.
C8_FlattenResultAsStated ==
    (origin = "tree" /\ pc = "flat") => Pairs(table) = JoinedLeaves(inTree)

\* C8 amended: the same, for the trees in which the empty key does not hold
\* a mapping at the top level and no two string leaves have the same joined
\* path.
C8_FlattenResult ==
    (/\ origin = "tree" /\ pc = "flat"
     /\ TopEmptyKeyHoldsNoMapping(inTree)
     /\ \A l1, l2 \in StrLeaves(inTree, <<>>) : Join(l1[1]) = Join(l2[1]) => l1 = l2)
        => Pairs(table) = JoinedLeaves(inTree)

\* {"a": {"b": "hello", "c": "world"}} gives {"a.b": "hello", "a.c": "world"}
C8_Witness ==
    /\ origin = "tree" /\ pc = "flat"
    /\ inTree = ExampleTree
    /\ table = << <<"a.b", Hello>>, <<"a.c", World>> >>

(***************************************************************************)
(* C9  entries with an empty value are not written                         *)
(***************************************************************************)
\* the tree in the file last written by Save or by export_ha_json
WrittenTree == fs[written[1].path].tree

\* C9: the tree Save or the nested JSON export writes has no string leaf
\* that is empty, and no string leaf at the dotted path of a key whose
\* value in the translations table is empty.
C9_EmptyValuesSkipped ==
    (written # None /\ written[1].by \in {"save", "export_ha_json"}) =>
       /\ \A l \in StrLeaves(WrittenTree, <<>>) : l[2] # EmptyStr
       /\ \A i \in 1..Len(written[1].table) :
             written[1].table[i][2] = EmptyStr =>
                ~\E l \in StrLeaves(WrittenTree, <<>>) : l[1] = Split(written[1].table[i][1])

\* the translation of a.b, loaded from sv.json, is cleared in the editor
\* and the table is saved: the file written has no a.b
C9_Witness ==
    /\ written # None /\ written[1].by = "save"
    /\ status_label.msg = "Saved translations to %s"
    /\ editor_current_key = Some("a.b") /\ editor_target_buf = EmptyStr
    /\ DictHas(written[1].table, "a.b") /\ DictAt(written[1].table, "a.b") = EmptyStr
    /\ NameOf(written[1].path) = "sv.json"
    /\ WrittenTree = DictNode(EmptyDict)

(***************************************************************************)
(* C10  get_coverage_stats                                                 *)
(***************************************************************************)
\* C10: get_coverage_stats gives the number of source keys, the number of
\* source keys with a non-empty target value, and translated / total * 100,
\* or 0 without source keys; 2 of 4 is 50, and the source {x: Hello} with an
\* empty target gives (1, 0, 0).  The statistics shown after an integration
\* is selected are these.
C10_CoverageStats ==
    LET stats == CoverageStats(view_all_keys, view_target_strings)
        total == Cardinality(DictKeys(view_source_strings))
        translated ==
            Cardinality({k \in DictKeys(view_source_strings) :
                           /\ DictHas(view_target_strings, k)
                           /\ DictAt(view_target_strings, k) # EmptyStr})
    IN  /\ stats[1] = total
        /\ stats[2] = translated
        /\ total > 0 => /\ stats[3].den > 0
                        /\ stats[3].num * total = translated * 100 * stats[3].den
        /\ total = 0 => stats[3] = Zero
        /\ (total = 4 /\ translated = 2) => stats[3] = [num |-> 50, den |-> 1]
        /\ (view_source_strings = << <<"x", "Hello">> >> /\ view_target_strings = EmptyDict)
              => stats = <<1, 0, Zero>>
        /\ stats_label # None => stats_label = stats

\* an integration with four source keys, two of them translated, is
\* selected: the statistics are (4, 2, 50)
C10_Witness ==
    /\ status_label.msg = "Loaded integration '%s'"
    /\ Len(view_all_keys) = 4
    /\ stats_label = <<4, 2, [num |-> 50, den |-> 1]>>

(***************************************************************************)
(* C11  the container scan_integrations resolves                           *)
(***************************************************************************)
\* the subdirectories of a container that stand for an integration
Candidates(f, container) ==
    {q \in Children(f, container) :
        /\ IsDirAt(f, q)
        /\ ~StartsWith(NameOf(q), ".")
        /\ NameOf(q) # "__pycache__"}

\* the paths of the entries of a scan result
PathsOf(infos) == {infos[i].path : i \in 1..Len(infos)}

\* C11: for a given directory with a custom_components subdirectory only the
\* entries of custom_components are scanned; without one, a non-empty given
\* directory is itself iterated as the container of the integrations, and an
\* empty one gives no integrations.
C11_ContainerResolution ==
    \A p \in Folders(fs) :
        LET cc == Append(p, "custom_components")
            r == scan_integrations(fs, p)
        IN  /\ IsDirAt(fs, cc) =>
                  (r.ok => PathsOf(r.value) = Candidates(fs, cc))
            /\ (~IsDirAt(fs, cc) /\ Children(fs, p) # {}) =>
                  /\ r.error # "NotADirectoryError"
                  /\ r.ok => PathsOf(r.value) = Candidates(fs, p)
            /\ (~IsDirAt(fs, cc) /\ Children(fs, p) = {}) => r = Ok(<<>>)

\* the configuration directory holds the integration alpha and a regular
\* file named custom_components: the scan of it raised NotADirectoryError
\* and the scanner has no entry
C11_Witness ==
    /\ scanner_scan_path = Some(Config)
    /\ Exists(fs, Append(Config, "custom_components"))
    /\ fs[Append(Config, "custom_components")].type = "file"
    /\ Append(Config, "alpha") \in Candidates(fs, Config)
    /\ raised = "NotADirectoryError"
    /\ scanner_integrations = <<>>
    /\ status_label = Message("Ready", <<>>)

(***************************************************************************)
(* C12  a failed write of the export target                                *)
(***************************************************************************)
\* the file p cannot be opened for writing
Unwritable(f, p) ==
    \/ IsDirAt(f, p)
    \/ Exists(f, p) /\ f[p].kind = "locked"
    \/ ~IsDirAt(f, Parent(p))

\* C12: an export whose target cannot be written reports "Error: ..." with
\* the exception the exporter raised and never "Exported to ..."; the failed
\* attempt writes nothing, at once or later: the step that reports the error
\* leaves every file as it was, and a file reported as exported was writable
\* when the export ran and holds the exported document.
C12_WriteFailureSurfaced ==
    [][/\ (/\ export_status'.msg = "Exported to %s"
            /\ written' # None
            /\ written'[1].by # "save"
            /\ (export_status' # export_status \/ fs' # fs \/ written' # written))
              => /\ ~Unwritable(fs, export_status'.arg)
                 /\ Exists(fs', export_status'.arg)
                 /\ fs'[export_status'.arg].kind # "locked"
                 /\ written'[1].path = export_status'.arg
       /\ (export_status'.msg = "Error: %s" /\ export_status' # export_status)
              => /\ fs' = fs
                 /\ written' = written
                 /\ raised' = export_status'.arg[1]
       /\ (Unwritable(fs, LockedFile) /\ Unwritable(fs', LockedFile))
              => /\ fs'[LockedFile] = fs[LockedFile]
                 /\ export_status' # Message("Exported to %s", LockedFile)]_vars

\* an export to the file that cannot be written: the dialog shows the error,
\* nothing was written
C12_Witness ==
    /\ export_status = Message("Error: %s", <<"PermissionError">>)
    /\ raised = "PermissionError"
    /\ Unwritable(fs, LockedFile)
    /\ written = None
    /\ view_all_keys # <<>>

(***************************************************************************)
(* C13  fuzzy is set by the user alone                                     *)
(***************************************************************************)
\* the keys whose status is fuzzy
FuzzyKeys(statuses) ==
    {k \in DictKeys(statuses) : DictAt(statuses, k) = STATUS_FUZZY}

\* C13: a key becomes fuzzy only in a step in which the user moves the status
\* dropdown to Fuzzy while that key is the current key, a step that changes
\* neither the current key nor a text; no load, selection, edit, copy or
\* save makes a key fuzzy, and no row of the strings view and no item of its
\* export data is fuzzy.
C13_FuzzyOnlyByUser ==
    [][/\ \A k \in FuzzyKeys(editor_statuses') \ FuzzyKeys(editor_statuses) :
              /\ editor_current_key = Some(k)
              /\ editor_current_key' = Some(k)
              /\ editor_status_combo # 1
              /\ editor_status_combo' = 1
              /\ editor_translations' = editor_translations
              /\ editor_target_buf' = editor_target_buf
              /\ editor_strings' = editor_strings
              /\ editor_target_lang' = editor_target_lang
              /\ fs' = fs
       /\ \A i \in 1..Len(view_store') : view_store'[i][4] # STATUS_FUZZY
       /\ LET data == get_strings_data(view_all_keys', view_source_strings',
                                        view_target_strings')
          IN  \A i \in 1..Len(data) : data[i].status # STATUS_FUZZY]_vars

\* the user marked a.b fuzzy; a.c, whose loaded translation is empty, is not
C13_Witness ==
    /\ editor_current_key = Some("a.b")
    /\ editor_status_combo = 1
    /\ FuzzyKeys(editor_statuses) = {"a.b"}
    /\ DictGet(editor_translations, "a.c", "none") = EmptyStr
    /\ editor_target_lang = Some("sv")
    /\ editor_modified

(***************************************************************************)
(* C14  the rows of the strings view                                       *)
(***************************************************************************)
\* C14: the store of the strings view holds exactly one row per source key,
\* in ascending key order, with the source value, the target value and the
\* status translated if the target table holds a non-empty value for the key
\* and missing otherwise; the rows with status translated are as many as
\* get_coverage_stats counts.
C14_StringsViewRows ==
    LET keys == DictKeys(view_source_strings)
        n == Len(view_store)
    IN  /\ n = Cardinality(keys)
        /\ {view_store[i][1] : i \in 1..n} = keys
        /\ \A i \in 1..n, j \in 1..n : i < j => StrLess(view_store[i][1], view_store[j][1])
        /\ \A i \in 1..n :
              LET key == view_store[i][1]
                  holds == /\ DictHas(view_target_strings, key)
                           /\ DictAt(view_target_strings, key) # EmptyStr
              IN  /\ view_store[i][2] = DictAt(view_source_strings, key)
                  /\ view_store[i][3] = IF holds THEN DictAt(view_target_strings, key)
                                        ELSE EmptyStr
                  /\ view_store[i][4] = IF holds THEN STATUS_TRANSLATED ELSE STATUS_MISSING
        /\ Cardinality({i \in 1..n : view_store[i][4] = STATUS_TRANSLATED})
              = CoverageStats(view_all_keys, view_target_strings)[2]

\* the rows are as C14 says in the state a load of the view leaves: the
\* step that fills the store gives the rows of the tables loaded
C14_RowsAtLoad ==
    [][(view_store' # view_store \/ view_source_strings' # view_source_strings)
          => C14_StringsViewRows']_vars

\* alpha was selected with a.b translated and a.c empty, and a.c was then
\* translated in the editor: the target table of the strings view holds the
\* new value, its row for a.c still says missing
C14_Witness ==
    /\ status_label = Message("Loaded integration '%s'", <<"alpha">>)
    /\ same_dict
    /\ editor_current_key = Some("a.c")
    /\ view_target_strings = << <<"a.b", "hej">>, <<"a.c", "hej">> >>
    /\ view_store = << <<"a.b", Hello, "hej", STATUS_TRANSLATED>>,
                       <<"a.c", World, EmptyStr, STATUS_MISSING>> >>
    /\ stats_label = <<2, 1, [num |-> 50, den |-> 1]>>
    /\ CoverageStats(view_all_keys, view_target_strings)[2] = 2

(***************************************************************************)
(* C15  escaping in PO and POT files                                       *)
(***************************************************************************)
\* the string whose escaped form is s: a backslash stands for the character
\* after it
RECURSIVE Unescaped(_)
Unescaped(s) ==
    IF s = EmptyStr THEN s
    ELSE IF CharAt(s, 1) = "\\" /\ Len(s) >= 2
         THEN CharAt(s, 2) \o Unescaped(SubSeq(s, 3, Len(s)))
         ELSE CharAt(s, 1) \o Unescaped(Tail(s))

\* the number of backslashes that stand directly before position i of s
RECURSIVE BackslashesBefore(_, _)
BackslashesBefore(s, i) ==
    IF i > 1 /\ CharAt(s, i - 1) = "\\" THEN 1 + BackslashesBefore(s, i - 1) ELSE 0

\* the number of occurrences of the character ch in s
CountOf(s, ch) == Cardinality({i \in 1..Len(s) : CharAt(s, i) = ch})

\* every double quote of s stands after an odd number of backslashes
QuotesEscaped(s) ==
    \A i \in 1..Len(s) : CharAt(s, i) = "\"" => BackslashesBefore(s, i) % 2 = 1

\* the document of the file last written
WrittenDoc == fs[written[1].path].doc

\* C15: the escaped form of a string has one more character per backslash
\* and per double quote, every double quote in it stands after an odd number
\* of backslashes, and un-escaping it gives the string back, so that no two
\* strings have the same escaped form; He said "hi"\ becomes
\* He said \"hi\"\\.  The msgid and the msgstr of every entry written by
\* export_pot and export_po are such escaped forms of the source value and
\* of the target value.
C15_Escaping ==
    /\ \A v \in EscVals :
          /\ Unescaped(Escaped(v)) = v
          /\ Len(Escaped(v)) = Len(v) + CountOf(v, "\\") + CountOf(v, "\"")
          /\ QuotesEscaped(Escaped(v))
          /\ \A w \in EscVals : Escaped(v) = Escaped(w) => v = w
    /\ Escaped(Quoted) = "He said \\\"hi\\\"\\\\"
    /\ (written # None /\ written[1].by \in {"export_pot", "export_po"}) =>
          \A i \in 2..Len(WrittenDoc.rows) :
             LET row == WrittenDoc.rows[i]
                 source == DictAt(view_source_strings, row[1])
                 target == DictGet(written[1].table, row[1], EmptyStr)
             IN  /\ QuotesEscaped(row[2])
                 /\ QuotesEscaped(row[3])
                 /\ Unescaped(row[2]) = source
                 /\ Len(row[2]) = Len(source) + CountOf(source, "\\") + CountOf(source, "\"")
                 /\ written[1].by = "export_po" =>
                       /\ Unescaped(row[3]) = target
                       /\ Len(row[3]) = Len(target) + CountOf(target, "\\")
                                          + CountOf(target, "\"")

\* the source He said "hi"\ and the same string as its translation are
\* exported as a PO file
C15_Witness ==
    /\ written # None
    /\ written[1].by = "export_po"
    /\ view_source_strings = << <<"m", Quoted>> >>
    /\ Len(WrittenDoc.rows) = 2
    /\ WrittenDoc.rows[2] = <<"m", "He said \\\"hi\\\"\\\\", "He said \\\"hi\\\"\\\\">>
    /\ export_status = Message("Exported to %s", Append(Home, "export.out"))

(***************************************************************************)
(* C16  the entries of a PO file                                           *)
(***************************************************************************)
\* the step is an export by the exporter named: the dialog reports the file
\* exported, and the file or the report is new
ExportStep(by) ==
    /\ written' # None
    /\ written'[1].by = by
    /\ export_status' = Message("Exported to %s", written'[1].path)
    /\ <<written, fs, export_status>>' # <<written, fs, export_status>>

\* the rows of a document after its first
Entries(doc) == SubSeq(doc.rows, 2, Len(doc.rows))

\* the entries have one row per key of the table, in ascending key order
OnePerKeyInOrder(entries, source) ==
    /\ Len(entries) = Cardinality(DictKeys(source))
    /\ {entries[i][1] : i \in 1..Len(entries)} = DictKeys(source)
    /\ \A i \in 1..Len(entries), j \in 1..Len(entries) :
          i < j => StrLess(entries[i][1], entries[j][1])

\* C16: the file export_po writes holds, after its header, exactly one entry
\* per source key, in ascending key order; the msgid is the escaped source
\* value, the msgstr the escaped target value if the target table has the
\* key and empty otherwise; a key of the target table alone has no entry.
C16_PoEntries ==
    [][ExportStep("export_po") =>
          LET doc == WrittenDoc'
              entries == Entries(doc)
          IN  /\ doc.format = "po"
              /\ Len(doc.rows) >= 1
              /\ \E text \in LangTexts :
                    "Language: " \o (IF Strip(text) # EmptyStr THEN Strip(text) ELSE "xx")
                       \in {doc.rows[1][k] : k \in 1..Len(doc.rows[1])}
              /\ OnePerKeyInOrder(entries, view_source_strings)
              /\ \A i \in 1..Len(entries) :
                    LET key == entries[i][1]
                    IN  /\ entries[i][2] = Escaped(DictAt(view_source_strings, key))
                        /\ entries[i][3] =
                              IF DictHas(view_target_strings, key)
                              THEN Escaped(DictAt(view_target_strings, key))
                              ELSE EmptyStr
              /\ \A k \in DictKeys(view_target_strings) \ DictKeys(view_source_strings) :
                    \A i \in 1..Len(entries) : entries[i][1] # k]_vars

\* the source with the keys b, a.c and B, translated for b and for the key
\* zz it does not have, is exported as a PO file: the entries are B, a.c, b
C16_Witness ==
    /\ written # None
    /\ written[1].by = "export_po"
    /\ view_target_strings = << <<"zz", "extra">>, <<"b", "bi">> >>
    /\ Entries(WrittenDoc) = << <<"B", "Bee", EmptyStr>>, <<"a.c", "sea", EmptyStr>>,
                                <<"b", "bee", "bi">> >>

(***************************************************************************)
(* C17  the entries of a POT file                                          *)
(***************************************************************************)
\* C17: the file export_pot writes holds the template header, with the
\* project, the creation date and the charset, and after it exactly one
\* entry per source key, in ascending key order, each with the key as its
\* comment, the escaped source value as msgid and an empty msgstr.
C17_PotEntries ==
    [][ExportStep("export_pot") =>
          LET doc == WrittenDoc'
              entries == Entries(doc)
          IN  /\ doc.format = "pot"
              /\ Len(doc.rows) >= 1
              /\ {"Project-Id-Version: ha-custom-component",
                  "POT-Creation-Date: " \o Now,
                  "Content-Type: text/plain; charset=UTF-8"}
                    \subseteq {doc.rows[1][k] : k \in 1..Len(doc.rows[1])}
              /\ OnePerKeyInOrder(entries, view_source_strings)
              /\ \A i \in 1..Len(entries) :
                    /\ entries[i][2] = Escaped(DictAt(view_source_strings, entries[i][1]))
                    /\ entries[i][3] = EmptyStr]_vars

\* the source with the keys b, a.c and B is exported as a template
C17_Witness ==
    /\ written # None
    /\ written[1].by = "export_pot"
    /\ view_source_strings = << <<"b", "bee">>, <<"a.c", "sea">>, <<"B", "Bee">> >>
    /\ Entries(WrittenDoc) = << <<"B", "Bee", EmptyStr>>, <<"a.c", "sea", EmptyStr>>,
                                <<"b", "bee", EmptyStr>> >>

(***************************************************************************)
(* C18  the rows of a CSV export                                           *)
(***************************************************************************)
\* C18: the file export_csv writes holds the header row, one row per string
\* item in the order of the list, with the key, the source, the target and
\* the status of the item, an empty row and the attribution row: n + 3 rows
\* for n items.  A field an item does not have is written as empty, and the
\* source {x: Hello} with an empty target gives the line x,Hello,,missing.
C18_CsvRows ==
    [][ExportStep("export_csv") =>
          LET rows == WrittenDoc'.rows
              n == Len(view_all_keys)
          IN  /\ WrittenDoc'.format = "csv"
              /\ Len(rows) = n + 3
              /\ rows[1] = <<"Key", "Source", "Target", "Status">>
              /\ \A i \in 1..n :
                    LET key == view_all_keys[i]
                        holds == /\ DictHas(view_target_strings, key)
                                 /\ DictAt(view_target_strings, key) # EmptyStr
                    IN  rows[i + 1] =
                           <<key, DictAt(view_source_strings, key),
                             IF holds THEN DictAt(view_target_strings, key) ELSE EmptyStr,
                             IF holds THEN STATUS_TRANSLATED ELSE STATUS_MISSING>>
              /\ rows[n + 2] = <<>>
              /\ rows[n + 3] = <<Attribution>>
              /\ (view_source_strings = << <<"x", "Hello">> >>
                  /\ view_target_strings = EmptyDict)
                    => /\ Len(rows) = 4
                       /\ CsvLine(rows[2]) = "x,Hello,,missing"
              /\ export_csv(<< [key |-> "k"], [source |-> "s", status |-> STATUS_FUZZY],
                               [key |-> "a", source |-> "b", target |-> "c",
                                status |-> "d"] >>).rows
                    = << <<"Key", "Source", "Target", "Status">>,
                         <<"k", EmptyStr, EmptyStr, EmptyStr>>,
                         <<EmptyStr, "s", EmptyStr, STATUS_FUZZY>>,
                         <<"a", "b", "c", "d">>, <<>>, <<Attribution>> >>]_vars

\* the integration with the source {x: Hello} and no translation is
\* exported as CSV: four rows, the second is x,Hello,,missing
C18_Witness ==
    /\ written # None
    /\ written[1].by = "export_csv"
    /\ export_status = Message("Exported to %s", Append(Home, "export.out"))
    /\ view_source_strings = << <<"x", "Hello">> >>
    /\ view_target_strings = EmptyDict
    /\ Len(WrittenDoc.rows) = 4
    /\ CsvLine(WrittenDoc.rows[2]) = "x,Hello,,missing"
    /\ CsvLine(WrittenDoc.rows[3]) = EmptyStr

(***************************************************************************)
(* C19  the entries of a scan                                              *)
(***************************************************************************)
\* the entries are one per subdirectory of the container that stands for an
\* integration, in ascending name order, each with the flags and the
\* languages of its subdirectory
EntriesDescribe(f, container, infos) ==
    /\ Len(infos) = Cardinality(Candidates(f, container))
    /\ PathsOf(infos) = Candidates(f, container)
    /\ \A i \in 1..Len(infos), j \in 1..Len(infos) :
          i < j => StrLess(infos[i].name, infos[j].name)
    /\ \A i \in 1..Len(infos) :
          LET item == infos[i].path
              trans == Append(item, "translations")
              langs == infos[i].languages
          IN  /\ infos[i].name = NameOf(item)
              /\ infos[i].has_strings = Exists(f, Append(item, "strings.json"))
              /\ infos[i].has_translations = Exists(f, trans)
              /\ {langs[k] : k \in 1..Len(langs)}
                    = {Stem(NameOf(q)) :
                         q \in {c \in Children(f, trans) : EndsWith(NameOf(c), ".json")}}
              /\ \A k \in 1..Len(langs), l \in 1..Len(langs) :
                    k < l => StrLess(langs[k], langs[l])

\* the container of the integrations of a given directory
Container(f, p) ==
    IF IsDirAt(f, Append(p, "custom_components")) THEN Append(p, "custom_components")
    ELSE p

\* C19: the scan of a directory returns exactly one entry per subdirectory of
\* its container whose name neither starts with a dot nor is __pycache__, in
\* ascending name order, none for a plain file, each with has_strings and
\* has_translations as strings.json and translations exist in it and with
\* the stems of translations/*.json, ascending, as its languages.
C19_ScanEntries ==
    \A p \in Folders(fs) :
        LET r == scan_integrations(fs, p)
        IN  /\ r.ok
            /\ EntriesDescribe(fs, Container(fs, p), r.value)

\* the entries of every scan that returns are as C19 says, and so are the
\* entries the scanner holds
C19_EntriesOfAReturningScan ==
    /\ \A p \in Folders(fs) :
          LET r == scan_integrations(fs, p)
          IN  r.ok => EntriesDescribe(fs, Container(fs, p), r.value)
    /\ status_label.msg = "Found %d integrations" =>
          EntriesDescribe(fs, Container(fs, scanner_scan_path[1]), scanner_integrations)

\* alpha, whose strings.json holds bytes that are no UTF-8 text, stands next
\* to beta in the scanned directory: the scan raised and the scanner holds
\* no entry, for alpha or for beta
C19_Witness ==
    /\ scanner_scan_path = Some(Config)
    /\ Candidates(fs, Container(fs, Config))
          = {Append(Config, "alpha"), Append(Config, "beta")}
    /\ Exists(fs, Config \o <<"alpha", "strings.json">>)
    /\ fs[Config \o <<"alpha", "strings.json">>].kind = "undecodable"
    /\ ~Exists(fs, Config \o <<"alpha", "translations">>)
    /\ raised = "UnicodeDecodeError"
    /\ scanner_integrations = <<>>
    /\ scanner_store = <<>>

(***************************************************************************)
(* C20  leaves that are neither strings nor mappings                       *)
(***************************************************************************)
\* the paths of the leaves of a JSON value that are neither strings nor
\* mappings
RECURSIVE OtherLeaves(_, _)
OtherLeaves(n, path) ==
    IF IsDict(n)
    THEN UNION {OtherLeaves(n.items[i][2], Append(path, n.items[i][1])) :
                  i \in 1..Len(n.items)}
    ELSE IF IsStr(n) THEN {}
    ELSE {path}

\* the JSON value without the entry at the path given
RECURSIVE RemoveAt(_, _)
RemoveAt(n, path) ==
    IF Len(path) = 1
    THEN DictNode(SelectSeq(n.items, LAMBDA e : e[1] # path[1]))
    ELSE DictNode([i \in 1..Len(n.items) |->
                     IF n.items[i][1] = path[1]
                     THEN <<path[1], RemoveAt(n.items[i][2], Tail(path))>>
                     ELSE n.items[i]])

\* C20: flattening a tree records nothing for a leaf that is neither a
\* string nor a mapping: the table has the entries, in the order, that the
\* tree without that leaf gives, it has no more entries than the tree has
\* string leaves, every value in it is the value of a string leaf, and a
\* value that is neither a string nor a mapping flattens to the empty table.
C20_NonStringLeavesSkipped ==
    /\ _flatten_json(OtherNode, EmptyStr, EmptyDict) = EmptyDict
    /\ _flatten(OtherNode, EmptyStr, EmptyDict) = EmptyDict
    /\ (origin = "tree" /\ pc = "flat") =>
          /\ \A p \in OtherLeaves(inTree, <<>>) :
                /\ table = _flatten_json(RemoveAt(inTree, p), EmptyStr, EmptyDict)
                /\ table = _flatten(RemoveAt(inTree, p), EmptyStr, EmptyDict)
          /\ Len(table) <= Cardinality(StrLeaves(inTree, <<>>))
          /\ \A i \in 1..Len(table) :
                table[i][2] \in {l[2] : l \in StrLeaves(inTree, <<>>)}

\* a tree with a string leaf after a leaf that is neither a string nor a
\* mapping, one of them nested: the table holds the string leaf alone
C20_Witness ==
    /\ origin = "tree" /\ pc = "flat"
    /\ inTree = DictNode(<< <<"a", DictNode(<< <<"b", OtherNode>> >>)>>,
                            <<"b", StrNode(Hello)>> >>)
    /\ OtherLeaves(inTree, <<>>) = {<<"a", "b">>}
    /\ table = << <<"b", Hello>> >>

(***************************************************************************)
(* C21  the JSON report                                                    *)
(***************************************************************************)
\* C21: the file export_json_report writes is a JSON object with the fields
\* generated, total_strings, translated and strings; total_strings is the
\* number of items, translated the number of items with the status
\* translated, at most total_strings, and strings is the list of items in
\* its order.  An item without a status is not counted.  For the items of
\* get_strings_data, the two counts are the total and the translated of
\* get_coverage_stats.
C21_JsonReport ==
    [][ExportStep("export_json_report") =>
          LET doc == WrittenDoc'
              data == get_strings_data(view_all_keys, view_source_strings,
                                       view_target_strings)
              stats == CoverageStats(view_all_keys, view_target_strings)
          IN  /\ doc.format = "report"
              /\ doc.generated = Now
              /\ IsDict(fs'[written'[1].path].tree)
              /\ DictKeys(fs'[written'[1].path].tree.items)
                    = {"generated", "total_strings", "translated", "strings"}
              /\ doc.rows = data
              /\ doc.total_strings = Len(data)
              /\ doc.translated
                    = Cardinality({i \in 1..Len(data) : data[i].status = STATUS_TRANSLATED})
              /\ doc.translated <= doc.total_strings
              /\ doc.total_strings = stats[1]
              /\ doc.translated = stats[2]
              /\ LET r == export_json_report(
                              << [key |-> "k", status |-> STATUS_TRANSLATED],
                                 [key |-> "a"],
                                 [key |-> "f", status |-> STATUS_FUZZY],
                                 [key |-> "k", status |-> STATUS_TRANSLATED] >>)
                 IN  /\ r.total_strings = 4
                     /\ r.translated = 2
                     /\ r.rows[2] = [key |-> "a"]]_vars

\* the source with four keys, two of them translated, is exported as a
\* report: 4 strings, 2 translated, in the order of the keys
C21_Witness ==
    /\ written # None
    /\ written[1].by = "export_json_report"
    /\ export_status = Message("Exported to %s", Append(Home, "export.out"))
    /\ Exists(fs, written[1].path)
    /\ WrittenDoc.format = "report"
    /\ WrittenDoc.total_strings = 4
    /\ WrittenDoc.translated = 2
    /\ Len(WrittenDoc.rows) = 4
    /\ WrittenDoc.rows = get_strings_data(view_all_keys, view_source_strings,
                                          view_target_strings)
    /\ stats_label = <<4, 2, [num |-> 50, den |-> 1]>>

(***************************************************************************)
(* C22  the file Save writes                                               *)
(***************************************************************************)
\* the file translations/<lang>.json of a component
TranslationsFile(component, lang) ==
    component \o <<"translations", lang \o ".json">>

\* C22: the file last written by Save is translations/<L>.json of the
\* component that was set when it was written, L being the language whose
\* translations file the editor's table had been loaded from.
C22_SaveWritesLoadedLanguage ==
    (written # None /\ written[1].by = "save") =>
        /\ written[1].loaded # None
        /\ written[1].path = TranslationsFile(written[1].component, written[1].loaded[1])

\* the weaker statement that holds: the file is translations/<L>.json of
\* the component set, L being the language last given to the editor's Load
C22_SaveWritesTargetLanguage ==
    [][(written' # None /\ written'[1].by = "save" /\ written' # written) =>
          /\ editor_component_path # None
          /\ editor_target_lang # None
          /\ written'[1].component = editor_component_path[1]
          /\ written'[1].path
                = TranslationsFile(editor_component_path[1], editor_target_lang[1])
          /\ written'[1].table = editor_translations]_vars

\* the translations of sv are loaded in the editor, the integration is
\* selected again with an empty header language, which loads the table of
\* en, and Save writes that table to sv.json
C22_Witness ==
    /\ written # None
    /\ written[1].by = "save"
    /\ written[1].loaded = Some("en")
    /\ editor_target_lang = Some("sv")
    /\ written[1].path = TranslationsFile(Append(Config, "alpha"), "sv")
    /\ written[1].table = EmptyDict
    /\ Exists(fs, written[1].path)
    /\ fs[written[1].path].tree = DictNode(EmptyDict)
    /\ status_label = Message("Saved translations to %s", written[1].path)

(***************************************************************************)
(* C23  the table handed to the exporters                                  *)
(***************************************************************************)
\* C23: once an integration has been selected, the target table of the
\* strings view, which _get_export_data hands to the exporters, is the
\* translations table of the editor.
C23_ExportTableIsEditorTable ==
    editor_component_path # None =>
        /\ view_target_strings = editor_translations
        /\ _get_export_data(EmptyStr).translations = editor_translations

\* what holds: the two tables are equal while they are one dict, which is
\* from the selection of an integration with a non-empty target table to
\* the next language load in the editor
C23_EqualWhileOneDict ==
    same_dict => view_target_strings = editor_translations

\* alpha, without translations, was selected, a.b was translated in the
\* editor, and the nested JSON export wrote the empty table
C23_Witness ==
    /\ editor_component_path = Some(Append(Config, "alpha"))
    /\ ~same_dict
    /\ editor_translations = << <<"a.b", "hej">> >>
    /\ editor_modified
    /\ view_target_strings = EmptyDict
    /\ written # None
    /\ written[1].by = "export_ha_json"
    /\ written[1].table = EmptyDict
    /\ export_status = Message("Exported to %s", written[1].path)
    /\ Exists(fs, written[1].path)
    /\ fs[written[1].path].tree = DictNode(EmptyDict)

(***************************************************************************)
(* C24  the keys a target-text edit writes                                 *)
(***************************************************************************)
\* the step is an edit of the target text: the buffer changes and the
\* handler records its text under the current key
TargetEdit ==
    /\ editor_target_buf' # editor_target_buf
    /\ Truthy(editor_current_key')
    /\ editor_translations' # editor_translations
    /\ editor_strings' = editor_strings

\* C24: an edit of the target text writes the translation of a key of the
\* source table loaded: the current key is a source key, and the keys the
\* edit adds to the translations table are source keys.
C24_EditsWriteSourceKeys ==
    [][TargetEdit =>
          /\ DictHas(editor_strings, editor_current_key'[1])
          /\ DictKeys(editor_translations') \ DictKeys(editor_translations)
                \subseteq DictKeys(editor_strings)]_vars

\* what holds: an edit writes under the key selected last, and under no
\* other key
C24_EditsWriteCurrentKey ==
    [][TargetEdit =>
          \A k \in DictKeys(editor_translations') \cup DictKeys(editor_translations) :
             k # editor_current_key'[1] =>
                /\ DictHas(editor_translations, k) = DictHas(editor_translations', k)
                /\ DictGet(editor_translations, k, EmptyStr)
                      = DictGet(editor_translations', k, EmptyStr)]_vars

\* a.b of alpha was selected, beta was then loaded, and the text typed was
\* recorded for beta under a.b, which beta's source table does not have
C24_Witness ==
    /\ editor_component_path = Some(Append(Config, "beta"))
    /\ editor_strings = << <<"x", "Hello">> >>
    /\ editor_current_key = Some("a.b")
    /\ DictHas(editor_translations, "a.b")
    /\ DictAt(editor_translations, "a.b") = "hej"
    /\ editor_modified
    /\ ~DictHas(editor_strings, "a.b")

(***************************************************************************)
(* C25  when Save writes                                                   *)
(***************************************************************************)
\* a component path and a target language are set
BothSet == editor_component_path # None /\ editor_target_lang # None

\* the step is a Save that wrote its file
SaveWrote ==
    /\ written' # None
    /\ written'[1].by = "save"
    /\ \/ written' # written
       \/ status_label' # status_label /\ status_label'.msg = "Saved translations to %s"
       \/ editor_modified /\ ~editor_modified'

\* the step is a Save that raised: the rebuild and the mkdir of _on_save
\* raise these, and no dialog reports them
SaveRaised ==
    /\ raised' # raised
    /\ raised' \in {"TypeError", "AttributeError", "FileExistsError"}
    /\ export_status' = export_status

\* with a component path or a target language missing, the step writes no
\* file for Save, reports no saved file, leaves every JSON file as it was,
\* raises nothing of Save's and does not clear the modified flag
SilentWhenUnset ==
    ~BothSet =>
        /\ ~SaveRaised
        /\ written' # written => written'[1].by # "save"
        /\ status_label' # status_label
              => status_label'.msg # "Saved translations to %s"
        /\ editor_modified => editor_modified'
        /\ \A q \in DOMAIN fs' :
              (Len(q) > 0 /\ EndsWith(q[Len(q)], ".json")) =>
                  Exists(fs, q) /\ fs[q] = fs'[q]

\* what holds: a Save that writes has both set, without both nothing of
\* Save happens, and the target language is only set by a step that is no
\* selection of an integration
C25_SaveGuard ==
    [][/\ SaveWrote => BothSet
       /\ SilentWhenUnset
       /\ editor_target_lang' # editor_target_lang =>
             /\ editor_component_path' = editor_component_path
             /\ editor_component_path # None
             /\ editor_strings' = editor_strings
             /\ status_label' = status_label]_vars

\* C25: Save writes a file exactly when a component path and a target
\* language are set: with one of them missing nothing is written, reported
\* or cleared, and a Save that runs with both set writes its file.
C25_SaveWritesIffBothSet ==
    [][/\ SaveWrote => BothSet
       /\ SilentWhenUnset
       /\ (BothSet /\ (SaveWrote \/ SaveRaised)) => SaveWrote]_vars

\* beta, whose translations is a regular file, was selected, the language
\* sv was loaded in the editor, and Save raised at mkdir: both are set, and
\* no file was written
C25_Witness ==
    /\ BothSet
    /\ editor_component_path = Some(Append(Config, "beta"))
    /\ editor_target_lang = Some("sv")
    /\ raised = "FileExistsError"
    /\ written = None
    /\ ~Exists(fs, TranslationsFile(Append(Config, "beta"), "sv"))
    /\ status_label.msg # "Saved translations to %s"

\* alpha was selected and a.b edited without a Load in the editor: the
\* target language is not set, and Save changes nothing
C25_NoOpWitness ==
    /\ editor_component_path = Some(Append(Config, "alpha"))
    /\ editor_target_lang = None
    /\ editor_modified
    /\ editor_translations = << <<"a.b", "hej">> >>
    /\ written = None
    /\ steps = 6
    /\ status_label = Message("Loaded integration '%s'", <<"alpha">>)

(***************************************************************************)
(* C26  the status of a key the user never set by hand                     *)
(***************************************************************************)
\* the target text the editor holds for a key
TargetTextOf(key) == DictGet(editor_translations, key, EmptyStr)

\* C26: without a change of the status dropdown by hand, every source key
\* has the status translated if its target text is non-empty and the
\* status untranslated if it is empty.
C26_StatusFollowsText ==
    \A key \in DictKeys(editor_strings) :
       DictGet(editor_statuses, key, STATUS_UNTRANSLATED)
          = IF TargetTextOf(key) # EmptyStr THEN STATUS_TRANSLATED ELSE STATUS_UNTRANSLATED

\* what holds: a source key with a non-empty target text is translated, and
\* no key is fuzzy
C26_NonEmptyIsTranslated ==
    /\ \A key \in DictKeys(editor_strings) :
          /\ DictHas(editor_statuses, key)
          /\ TargetTextOf(key) # EmptyStr => DictAt(editor_statuses, key) = STATUS_TRANSLATED
          /\ DictAt(editor_statuses, key) \in {STATUS_TRANSLATED, STATUS_UNTRANSLATED}
    /\ FuzzyKeys(editor_statuses) = {}

\* alpha was selected with a.b translated, a.b was selected and its target
\* text cleared: the text is empty, the status still translated
C26_Witness ==
    /\ editor_component_path = Some(Append(Config, "alpha"))
    /\ editor_current_key = Some("a.b")
    /\ editor_target_buf = EmptyStr
    /\ DictHas(editor_translations, "a.b")
    /\ DictAt(editor_translations, "a.b") = EmptyStr
    /\ DictHas(editor_statuses, "a.b")
    /\ DictAt(editor_statuses, "a.b") = STATUS_TRANSLATED
    /\ editor_status_combo = 0
    /\ editor_modified

(***************************************************************************)
(* C27  a rebuild that fails writes nothing                                *)
(***************************************************************************)
\* the rebuild of the table raises: an entry with a non-empty value stands
\* before an entry with a non-empty value whose key extends its key
RebuildFails(t) ==
    \E i, j \in 1..Len(t) :
       /\ i < j
       /\ t[i][2] # EmptyStr
       /\ t[j][2] # EmptyStr
       /\ PathPrefix(Split(t[i][1]), Split(t[j][1]))

\* the rebuild raises for exactly these tables
C27_RebuildFailsExactly ==
    /\ RebuildFails(editor_translations) <=> ~_on_save_nested(editor_translations).ok
    /\ RebuildFails(view_target_strings) <=> ~export_ha_json_nested(view_target_strings).ok
    /\ (origin = "table" /\ pc = "start") =>
          /\ RebuildFails(inTable) <=> ~_on_save_nested(inTable).ok
          /\ RebuildFails(inTable) <=> ~export_ha_json_nested(inTable).ok

\* C27: while the rebuild of the editor's table fails, no step writes,
\* creates or changes the file Save would write, clears the modified flag
\* or reports saved translations; while the rebuild of the table handed to
\* the exporters fails, no step exports nested JSON, and the step that
\* reports the exception of the rebuild leaves every file as it was.
C27_FailedRebuildWritesNothing ==
    [][/\ (BothSet /\ RebuildFails(editor_translations)) =>
             LET out == TranslationsFile(editor_component_path[1], editor_target_lang[1])
             IN  /\ ~SaveWrote
                 /\ Exists(fs', out) => Exists(fs, out) /\ fs'[out] = fs[out]
                 /\ Exists(fs, out) => Exists(fs', out)
                 /\ editor_modified => editor_modified'
                 /\ status_label'.msg = "Saved translations to %s"
                       => status_label' = status_label
       /\ RebuildFails(view_target_strings) =>
             /\ ~ExportStep("export_ha_json")
             /\ (/\ export_status' # export_status
                 /\ export_status' \in {Message("Error: %s", <<"TypeError">>),
                                        Message("Error: %s", <<"AttributeError">>)})
                   => fs' = fs /\ written' = written]_vars

\* the table holds a and a.b, Save raised TypeError: sv.json is as it was,
\* the modified flag is set, and the status is that of the selection
C27_Witness ==
    /\ BothSet
    /\ RebuildFails(editor_translations)
    /\ editor_translations = << <<"a", "hej">>, <<"a.b", "hej">> >>
    /\ raised = "TypeError"
    /\ export_status = Message(EmptyStr, <<>>)
    /\ editor_modified
    /\ written = None
    /\ status_label.msg = "Loaded integration '%s'"
    /\ Exists(fs, TranslationsFile(editor_component_path[1], editor_target_lang[1]))
    /\ fs[TranslationsFile(editor_component_path[1], editor_target_lang[1])]
          = JsonFile(WithStringAtA)

\* the same table was handed to the nested JSON export: the dialog shows
\* the TypeError and the export file does not exist
C27_ExportWitness ==
    /\ RebuildFails(view_target_strings)
    /\ export_status = Message("Error: %s", <<"TypeError">>)
    /\ written = None
    /\ ~Exists(fs, Append(Home, "export.out"))

(***************************************************************************)
(* C28  a fetch that raises                                                *)
(***************************************************************************)
\* the step runs the callback a thread handed over from its except clause
ErrorCallbackRuns ==
    /\ idle_queue # <<>>
    /\ Head(idle_queue).run = "set_text"
    /\ idle_queue' = Tail(idle_queue)

\* C28: the callback of a fetch that raised sets the detail title to
\* Error: and the text of the exception, and leaves the entities and the
\* store of the browser as they were.
C28_FetchErrorShown ==
    [][ErrorCallbackRuns =>
          /\ browser_detail_title'
                = Message("Error: %s", <<fetches[Head(idle_queue).thread].answer[1].error>>)
          /\ browser_entities' = browser_entities
          /\ browser_store' = browser_store]_vars

\* what holds: the callback leaves the entities and the store as they
\* were; it sets the title if it runs while the thread is still in its
\* except clause, and raises NameError, leaving the title, if it runs later
C28_ErrorCallback ==
    [][ErrorCallbackRuns =>
          /\ browser_entities' = browser_entities
          /\ browser_store' = browser_store
          /\ IF fetches[Head(idle_queue).thread].pc = "except"
             THEN /\ browser_detail_title' = Message("Error: %s", <<"URLError">>)
                  /\ raised' = raised
             ELSE /\ browser_detail_title' = browser_detail_title
                  /\ raised' = "NameError"]_vars

\* the one fetch raised, its thread has ended, and its callback has run:
\* NameError, and the title is the one of the constructor
C28_Witness ==
    /\ Len(fetches) = 1
    /\ fetches[1] = [pc |-> "over", answer |-> Some(Raised("URLError"))]
    /\ idle_queue = <<>>
    /\ raised = "NameError"
    /\ browser_detail_title = Message("Select an entity", <<>>)
    /\ browser_entities = <<>>

(***************************************************************************)
(* C29  refreshes in flight                                                *)
(***************************************************************************)
\* every fetch is over and every callback has run
Quiet ==
    /\ idle_queue = <<>>
    /\ \A n \in 1..Len(fetches) : fetches[n].pc = "over"

\* C29: when every fetch is over and every callback has run, the entities
\* held and shown are the answer to the refresh invoked last, if it got one.
C29_LatestRefreshWins ==
    (/\ Quiet
     /\ Len(fetches) > 0
     /\ fetches[Len(fetches)].answer[1].ok) =>
        /\ browser_entities = fetches[Len(fetches)].answer[1].value
        /\ browser_store = _rebuild_tree(fetches[Len(fetches)].answer[1].value)

\* what holds: the entities held and shown are the answer of the thread
\* whose callback the main loop ran, and the callbacks run in the order in
\* which the threads handed them over
C29_LastCallbackWins ==
    [][/\ (idle_queue # <<>> /\ idle_queue' = Tail(idle_queue)
           /\ Head(idle_queue).run = "load_entities") =>
             /\ browser_entities' = fetches[Head(idle_queue).thread].answer[1].value
             /\ browser_store' = _rebuild_tree(browser_entities')
       /\ (browser_entities' # browser_entities \/ browser_store' # browser_store) =>
             /\ idle_queue # <<>>
             /\ idle_queue' = Tail(idle_queue)
             /\ Head(idle_queue).run = "load_entities"
       /\ fetches' # fetches /\ idle_queue' # idle_queue =>
             SubSeq(idle_queue', 1, Len(idle_queue)) = idle_queue]_vars

\* two refreshes: the second fetch answered first with the later states,
\* the first fetch then with the earlier ones, which the browser holds
C29_Witness ==
    /\ Quiet
    /\ Len(fetches) = 2
    /\ fetches[1].answer = Some(Ok(StatesEarlier))
    /\ fetches[2].answer = Some(Ok(StatesLater))
    /\ browser_entities = StatesEarlier
    /\ browser_store = << [domain |-> "light",
                           rows |-> << <<"light.kitchen", "Kitchen Light", "on", TRUE>> >>] >>
    /\ raised = "none"

(***************************************************************************)
(* C30  the profile dropdown                                               *)
(***************************************************************************)
\* C30: while the dialog is presented, the dropdown lists New connection
\* and then one entry per instance, in the order of the instance list, so
\* that the entry i > 0 is the label of instance i - 1, and the instances
\* file holds the instance list.
C30_DropdownListsInstances ==
    dialog_open =>
        /\ dialog_profile_model = ProfileModel(dialog_instances)
        /\ Len(dialog_profile_model) = Len(dialog_instances) + 1
        /\ \A i \in 1..Len(dialog_instances) :
              dialog_profile_model[i + 1] = ProfileLabel(dialog_instances[i])
        /\ load_instances(instances_file) = dialog_instances

\* what holds: the file holds the instance list, the dropdown is as it
\* was built by the constructor or the last Delete, and it lists the
\* instances when it has just been built
C30_FileHoldsInstances ==
    dialog_open =>
        /\ load_instances(instances_file) = dialog_instances
        /\ dialog_profile_model[1] = "New connection"
        /\ dialog_selected < Len(dialog_profile_model)
        /\ dialog_status \in {EmptyStr, "Profile deleted"}
              => dialog_profile_model = ProfileModel(dialog_instances)

\* a profile was saved from New connection: the instance list and the file
\* hold it, the dropdown does not list it
C30_Witness ==
    /\ dialog_open
    /\ dialog_status = "Profile saved"
    /\ dialog_selected = 0
    /\ dialog_instances = << [name |-> "Home", url |-> DefaultUrl, token |-> "token"] >>
    /\ instances_file = Some(dialog_instances)
    /\ dialog_profile_model = <<"New connection">>
====
